---- MODULE Spec2Model ----
(***************************************************************************)
(* A model of the extraction engine of FireResearch (src/app.py): the      *)
(* three parse functions parse_erank_text_content,                         *)
(* parse_everbee_text_content and parse_etsy_html_content.                 *)
(*                                                                         *)
(* Text is modelled at character level: a string is a sequence of          *)
(* one-character strings, a line sequence is a sequence of such strings,   *)
(* and the regular expressions of the source are predicates over the       *)
(* characters.  Indices are Python's (0-based); At(s, i) reads s[i].       *)
(***************************************************************************)
EXTENDS Integers, Sequences, FiniteSets, TLC

VARIABLES
    pc,       \* the position inside the parse function that is running
    raw,      \* the pasted input: the raw lines of the text, or the page
    today,    \* date.today()
    erank,    \* the locals of parse_erank_text_content
    everbee,  \* the locals of parse_everbee_text_content
    etsy,     \* the locals of parse_etsy_html_content
    session,  \* st.session_state: the form fields of the Opportunity Tracker
    delivery, \* the call of calculate_days_until_delivery that is running
    calls,    \* the parse calls of a session so far and what they returned
    db        \* the tables of the ERANK data in the database

vars == <<pc, raw, today, erank, everbee, etsy, session, delivery, calls, db>>

\* What each parse function leaves alone besides pc and its own locals.
ErankFrame == <<raw, today, everbee, etsy, session, delivery, calls, db>>

EverbeeFrame == <<raw, today, erank, etsy, delivery, calls, db>>

EtsyFrame == <<raw, today, erank, everbee, delivery, calls, db>>

(***************************************************************************)
(* Characters and Python's string primitives                               *)
(***************************************************************************)
Digit == {"0", "1", "2", "3", "4", "5", "6", "7", "8", "9"}

UpperSeq == <<"A", "B", "C", "D", "E", "F", "G", "H", "I", "J", "K", "L", "M",
              "N", "O", "P", "Q", "R", "S", "T", "U", "V", "W", "X", "Y", "Z">>

LowerSeq == <<"a", "b", "c", "d", "e", "f", "g", "h", "i", "j", "k", "l", "m",
              "n", "o", "p", "q", "r", "s", "t", "u", "v", "w", "x", "y", "z">>

Alpha == {UpperSeq[k] : k \in DOMAIN UpperSeq} \cup {LowerSeq[k] : k \in DOMAIN LowerSeq}

Space == {" ", "\t", "\n"}

\* Python's None, for values that are otherwise strings.
None == <<"<None>">>

\* s[i] with Python's 0-based index.
At(s, i) == s[i + 1]

\* s[a:b] with Python's 0-based half-open slice, 0 <= a.
Slice(s, a, b) == IF b <= a THEN <<>> ELSE SubSeq(s, a + 1, IF b > Len(s) THEN Len(s) ELSE b)

\* str.lower() on one character, as re.IGNORECASE and .lower() apply it.
LowerChar(c) ==
    IF \E k \in DOMAIN UpperSeq : UpperSeq[k] = c
    THEN LowerSeq[CHOOSE k \in DOMAIN UpperSeq : UpperSeq[k] = c]
    ELSE c

Lower(s) == [k \in DOMAIN s |-> LowerChar(s[k])]

\* str.strip(): leading and trailing whitespace removed.
Strip(s) ==
    LET keep == {k \in DOMAIN s : s[k] \notin Space}
    IN  IF keep = {} THEN <<>>
        ELSE LET lo == CHOOSE k \in keep : \A m \in keep : k <= m
                 hi == CHOOSE k \in keep : \A m \in keep : k >= m
             IN  SubSeq(s, lo, hi)

\* sub occurs in s at 0-based index i.
OccursAt(s, sub, i) ==
    /\ i >= 0
    /\ i + Len(sub) <= Len(s)
    /\ \A k \in 1..Len(sub) : s[i + k] = sub[k]

\* str.find(sub, start): the lowest index >= start where sub occurs, else -1.
\* The empty string occurs at every index up to len(s).
Find(s, sub, start) ==
    LET hits == {i \in start..Len(s) : OccursAt(s, sub, i)}
    IN  IF hits = {} THEN -1 ELSE CHOOSE i \in hits : \A j \in hits : i <= j

\* sub in s
Contains(s, sub) == Find(s, sub, 0) # -1

\* s.startswith(p)
StartsWith(s, p) == OccursAt(s, p, 0)

AllIn(s, cls) == \A k \in DOMAIN s : s[k] \in cls

\* str.isdigit(): non-empty and digits only.
IsDigitStr(s) == Len(s) > 0 /\ AllIn(s, Digit)

\* s.replace(' ', '')
RemoveBlanks(s) == SelectSeq(s, LAMBDA c : c # " ")

(***************************************************************************)
(* parse_erank_text_content: patterns and literals                         *)
(***************************************************************************)
seed_line_prefix == <<"K","e","y","w","o","r","d","s"," ","r","e","l","a","t","e","d"," ","t","o">>

country_line_prefix == <<"S","e","a","r","c","h"," ","T","r","e","n","d","s"," ","(">>

exclude_marker == <<"E","X","C","L","U","D","E"," ","K","E","Y","W","O","R","D","S">>

\* "Rows per page:" and "Copyright (c)"; the copyright sign is the one character "(c)".
end_markers == { <<"R","o","w","s"," ","p","e","r"," ","p","a","g","e",":">>,
                 <<"C","o","p","y","r","i","g","h","t"," ","(c)">> }

\* The source lists the double quote, the single quote and the empty string.
quote_chars_open == << <<"\"">>, <<"'">>, <<>> >>

quote_chars_close == << <<"\"">>, <<"'">>, <<>> >>

\* Lines after the seed line that the country search still looks at.
CountryLimitAfterSeed == 30

\* Lines the country search looks at when no seed line was found.
CountryLimitNoSeed == 50

\* Lines of one keyword chunk.
ChunkLen == 9

\* bool(re.search(r'[a-zA-Z]', l)) and not l.replace(' ', '').isdigit()
is_likely_keyword(l) ==
    /\ \E k \in DOMAIN l : l[k] \in Alpha
    /\ ~IsDigitStr(RemoveBlanks(l))

\* re.match(r'^\d+\s+\d+$', l)
counts_match(l) ==
    \E a \in 1..Len(l) : \E b \in (a + 1)..(Len(l) - 1) :
        /\ \A k \in 1..a : l[k] \in Digit
        /\ \A k \in (a + 1)..b : l[k] \in Space
        /\ \A k \in (b + 1)..Len(l) : l[k] \in Digit

\* re.match(r'^([\d,]+|N/A|Unknown)$', l, re.IGNORECASE)
is_likely_google(l) ==
    \/ Len(l) > 0 /\ AllIn(l, Digit \cup {","})
    \/ Lower(l) = <<"n", "/", "a">>
    \/ Lower(l) = <<"u", "n", "k", "n", "o", "w", "n">>

\* any(marker in l for marker in end_markers)
IsEndMarker(l) == \E m \in end_markers : Contains(l, m)

\* The smallest element of a non-empty set of integers.
Min(S) == CHOOSE x \in S : \A y \in S : x <= y

\* The lines if the empty ones were discarded as parse_everbee_text_content
\* discards them.
ErankLines_DropsBlank(text) ==
    SelectSeq([k \in DOMAIN text |-> Strip(text[k])], LAMBDA l : l # <<>>)

\* lines = [line.strip() for line in erank_text.strip().splitlines()]:
\* the text is given as its raw lines; strip() of the whole text drops the
\* leading and trailing lines that hold only whitespace.
ErankLines(text) ==
    LET keep == {k \in DOMAIN text : Strip(text[k]) # <<>>}
    IN  IF keep = {} THEN <<>>
        ELSE LET lo == Min(keep)
                 hi == CHOOSE k \in keep : \A m \in keep : k >= m
             IN  [k \in 1..(hi - lo + 1) |-> Strip(text[lo + k - 1])]

(***************************************************************************)
(* Step 1: the seed keyword                                                *)
(***************************************************************************)
\* One turn of "for quote in quote_chars_...": keep the nearest quote found.
QuoteStep(acc, line, quote, from) ==
    LET idx == Find(line, quote, from)
    IN  IF idx # -1 /\ (acc.index = -1 \/ idx < acc.index)
        THEN [index |-> idx, char |-> quote]
        ELSE acc

NearestQuote(line, quotes, from) ==
    QuoteStep(QuoteStep(QuoteStep([index |-> -1, char |-> None],
                                  line, quotes[1], from),
                        line, quotes[2], from),
              line, quotes[3], from)

\* The opening quote searched from the end of the prefix.
OpeningQuote(line) == NearestQuote(line, quote_chars_open, Len(seed_line_prefix))

\* closing_quote_index for an opening quote found at `first`.
ClosingQuoteIndex(line, opening) ==
    IF opening.char = <<>> \/ opening.char = None
    THEN -1                               \* "if opening_quote_char:" is false
    ELSE LET idx_match == Find(line, opening.char, opening.index + 1)
         IN  IF idx_match # -1 THEN idx_match
             ELSE NearestQuote(line, quote_chars_close, opening.index + 1).index

\* The keyword one line yields, or the empty string when it yields none.
SeedOfLine(line) ==
    IF ~StartsWith(line, seed_line_prefix) THEN <<>>
    ELSE LET opening == OpeningQuote(line)
         IN  IF opening.index = -1 \/ opening.index > Len(seed_line_prefix) + 5
             THEN <<>>
             ELSE LET closing == ClosingQuoteIndex(line, opening)
                  IN  IF closing = -1 THEN <<>>
                      ELSE Strip(Slice(line, opening.index + 1, closing))

\* seed_keyword_line_index: the first line that yields a keyword, else -1.
SeedLineIndex(lines) ==
    LET hits == {i \in 0..(Len(lines) - 1) : SeedOfLine(At(lines, i)) # <<>>}
    IN  IF hits = {} THEN -1 ELSE Min(hits)

(***************************************************************************)
(* Step 1b: the country code                                               *)
(***************************************************************************)
\* re.search(r'\((.*?)\)', line).group(1).strip(), or "" when there is no
\* match or the group is empty.
ParenText(line) ==
    LET opens == {i \in 0..(Len(line) - 1) :
                     At(line, i) = "(" /\ Find(line, <<")">>, i + 1) # -1}
    IN  IF opens = {} THEN <<>>
        ELSE LET o == Min(opens)
             IN  Strip(Slice(line, o + 1, Find(line, <<")">>, o + 1)))

\* Whether line i is still inside the country search range.
CountryInRange(i, seedIdx) ==
    IF seedIdx # -1 THEN i <= seedIdx + CountryLimitAfterSeed
                    ELSE i <= CountryLimitNoSeed

\* A line that ends the country search: prefix and a non-empty group.
CountryHit(line) ==
    LET opens == {i \in 0..(Len(line) - 1) :
                     At(line, i) = "(" /\ Find(line, <<")">>, i + 1) # -1}
    IN  /\ StartsWith(line, country_line_prefix)
        /\ opens # {}
        /\ Find(line, <<")">>, Min(opens) + 1) > Min(opens) + 1

Unknown == <<"U", "n", "k", "n", "o", "w", "n">>

\* extracted_country_code after the search and the "Unknown" default.
CountryCode(lines, seedIdx) ==
    LET hits == {i \in 0..(Len(lines) - 1) :
                     CountryInRange(i, seedIdx) /\ CountryHit(At(lines, i))}
    IN  IF hits = {} THEN Unknown
        ELSE LET code == ParenText(At(lines, Min(hits)))
             IN  IF code = <<>> THEN Unknown ELSE code

\* A search for the start sentinel that gives up when no seed line was found.
ExcludeMarkerIndex_NeedsSeed(lines, seedIdx) ==
    LET hits == {i \in (seedIdx + 1)..(Len(lines) - 2) : At(lines, i) = exclude_marker}
    IN  IF seedIdx = -1 \/ hits = {} THEN -1 ELSE Min(hits)

(***************************************************************************)
(* Steps 2 and 3: the data region                                          *)
(***************************************************************************)
\* The index of the start sentinel the search stops at, else -1:
\* range(start_search_idx, len(lines) - 1).
ExcludeMarkerIndex(lines, seedIdx) ==
    LET start_search_idx == IF seedIdx # -1 THEN seedIdx + 1 ELSE 0
        hits == {i \in start_search_idx..(Len(lines) - 2) : At(lines, i) = exclude_marker}
    IN  IF hits = {} THEN -1 ELSE Min(hits)

\* A start that falls back to the first line searched when no sentinel is found.
DataStartIndex_Fallback(lines, seedIdx) ==
    LET m == ExcludeMarkerIndex(lines, seedIdx)
    IN  IF m # -1 /\ m + 2 < Len(lines) THEN m + 2
        ELSE IF m = -1 /\ Len(lines) > 0
             THEN (IF seedIdx # -1 THEN seedIdx + 1 ELSE 0)
             ELSE -1

\* data_start_index: two lines after the sentinel when that is a line, else -1.
DataStartIndex(lines, seedIdx) ==
    LET m == ExcludeMarkerIndex(lines, seedIdx)
    IN  IF m # -1 /\ m + 2 < Len(lines) THEN m + 2 ELSE -1

\* data_end_index: the first end sentinel at or after the start, else len(lines).
DataEndIndex(lines, start) ==
    LET hits == {i \in start..(Len(lines) - 1) : IsEndMarker(At(lines, i))}
    IN  IF hits = {} THEN Len(lines) ELSE Min(hits)

(***************************************************************************)
(* Step 4: the chunk loop                                                  *)
(***************************************************************************)
\* The break test one line too eager: a chunk ending at the region's end is dropped.
NotEnoughLines_OffByOne(cur, dataEnd) == cur + ChunkLen >= dataEnd

\* The break test one line too late: a chunk whose ninth line is the line at
\* the region's end is read.
NotEnoughLines_OneLineLate(cur, dataEnd) == cur + (ChunkLen - 1) > dataEnd

\* "if current_index + 8 >= data_end_index: break"
NotEnoughLines(cur, dataEnd) == cur + (ChunkLen - 1) >= dataEnd

\* The validation without the test of the counts line.
ChunkValid_NoCounts(lines, cur) ==
    /\ is_likely_keyword(At(lines, cur))
    /\ is_likely_google(At(lines, cur + 8))

\* is_likely_keyword and counts_match and is_likely_google on the chunk at cur.
ChunkValid(lines, cur) ==
    /\ is_likely_keyword(At(lines, cur))
    /\ counts_match(At(lines, cur + 3))
    /\ is_likely_google(At(lines, cur + 8))

keyword_entry(lines, cur) ==
    [Keyword          |-> At(lines, cur),
     Avg_Searches     |-> At(lines, cur + 4),
     Avg_Clicks       |-> At(lines, cur + 5),
     Avg_CTR          |-> At(lines, cur + 6),
     Etsy_Competition |-> At(lines, cur + 7),
     Google_Searches  |-> At(lines, cur + 8)]

\* The reject step without the loop over the blank lines.
SkipFrom_OneLine(lines, cur, dataEnd) == cur + 1

\* The reject step if it left the cursor where it is.
SkipFrom_Stays(lines, cur, dataEnd) == cur

\* "current_index += 1" and then past the blank lines.
SkipFrom(lines, cur, dataEnd) ==
    LET stops == {j \in (cur + 1)..dataEnd : j = dataEnd \/ At(lines, j) # <<>>}
    IN  Min(stops)

(***************************************************************************)
(* Pasted keyword pages the model parses                                   *)
(***************************************************************************)
\* The largest number of keyword chunks in one pasted page.
MaxChunks == 3

\* Keywords related to "ceramic mug"
SeedLineSpec == <<"K","e","y","w","o","r","d","s"," ","r","e","l","a","t","e","d"," ","t","o",
                  " ","\"","c","e","r","a","m","i","c"," ","m","u","g","\"">>

\* Keywords related to"mug"   (the quote directly after the prefix)
SeedLineTight == <<"K","e","y","w","o","r","d","s"," ","r","e","l","a","t","e","d"," ","t","o",
                   "\"","m","u","g","\"">>

\* Keywords related to 'mug
SeedLineOpen == <<"K","e","y","w","o","r","d","s"," ","r","e","l","a","t","e","d"," ","t","o",
                  " ","'","m","u","g">>

\* Search Trends (USA)
CountryLine == <<"S","e","a","r","c","h"," ","T","r","e","n","d","s"," ","(","U","S","A",")">>

\* The line between the start sentinel and the data ("0/5").
QuotaLine == <<"0", "/", "5">>

RowsPerPageLine == <<"R","o","w","s"," ","p","e","r"," ","p","a","g","e",":"," ","5","0">>

\* Two well-formed chunks: keyword, date, trend, counts and five metrics.
ChunkA == << <<"m","u","g">>, <<"M","a","r">>, <<"u","p">>, <<"1","8","\t","2","6">>,
             <<"1",",","2">>, <<"N","/","A">>, <<"2","%">>, <<"5","0">>, <<"9">> >>

ChunkB == << <<"c","u","p">>, <<"M","a","y">>, <<"u","p">>, <<"7"," ","3">>,
             <<"4","0">>, <<"8">>, <<"1","%">>, <<"6","1">>, <<"u","n","k","n","o","w","n">> >>

\* Lines a damaged chunk holds in place of one of its own.
DamageLines == { <<>>, <<"7">>, <<"3"," ","4">>, <<"o","f","f">>, <<"N","/","A">> }

\* A chunk and every chunk that differs from it in one line.
ChunkVariants(c) == {c} \cup {[c EXCEPT ![p] = l] : p \in DOMAIN c, l \in DamageLines}

\* The concatenation of a sequence of line sequences.
RECURSIVE Flatten(_)
Flatten(ss) == IF ss = <<>> THEN <<>> ELSE Head(ss) \o Flatten(Tail(ss))

\* Up to MaxChunks chunks, all well-formed.
CleanChunkLists == UNION {[1..n -> {ChunkA, ChunkB}] : n \in 0..MaxChunks}

\* The same with one chunk replaced by a variant of it.
DamagedChunkLists ==
    {[cl EXCEPT ![j] = v] : <<cl, j, v>> \in
        {<<cl, j, v>> \in CleanChunkLists \X (1..MaxChunks) \X
                          (ChunkVariants(ChunkA) \cup ChunkVariants(ChunkB)) :
            j \in DOMAIN cl /\ v \in ChunkVariants(cl[j])}}

\* What precedes the data: seed line, country line, start sentinel.
ErankHeads ==
    { <<exclude_marker, QuotaLine>>,
      <<SeedLineSpec, CountryLine, exclude_marker, QuotaLine>>,
      <<SeedLineTight, CountryLine, exclude_marker, QuotaLine>>,
      <<SeedLineOpen, <<" ">>, exclude_marker, QuotaLine>>,
      <<exclude_marker, QuotaLine, SeedLineTight>>,
      <<exclude_marker>>,
      <<SeedLineSpec>>,
      <<CountryLine>>,
      <<>> }

\* What follows the data.
ErankTails == { <<>>, <<RowsPerPageLine>>, <<RowsPerPageLine, <<"e","n","d">> >> }

ErankInputs ==
    {h \o Flatten(cl) \o t : <<h, cl, t>> \in ErankHeads \X CleanChunkLists \X ErankTails}
    \cup {<<exclude_marker, QuotaLine>> \o Flatten(cl) \o t :
              <<cl, t>> \in DamagedChunkLists \X {<<>>, <<RowsPerPageLine>>}}

(***************************************************************************)
(* The values the locals of a function hold while it is not running        *)
(***************************************************************************)
NoDate == [year |-> 0, month |-> 0, day |-> 0]

NoEverbee ==
    [lines |-> <<>>, table_start_index |-> -1, table_end_index |-> 0, i |-> 0,
     all_listings_data |-> <<>>, parsed_data |-> <<>>, tag_block_lines |-> <<>>,
     details_marker_index |-> -1, tags_list |-> <<>>, returned |-> "pending",
     message |-> "none"]

NoEtsy == [data |-> <<>>]

\* No call of calculate_days_until_delivery is running.
NoDelivery == [date_str |-> <<>>, returned |-> "pending", time_str |-> <<>>]

\* No parse call has been made.
NoCalls == [count |-> 0, last |-> <<"none", 0>>, results |-> {}, repeated |-> {}]

\* No call of add_erank_analysis is running. raw_keyword_list holds the dicts
\* the loop of line 371 goes through, raw_keyword_list_type the type of the
\* argument; returns tells what kind of value the call gave back, "id" or
\* "None".
NoSave ==
    [seed_keyword |-> None, country_code |-> None, raw_keyword_list |-> <<>>,
     raw_keyword_list_type |-> "list", returns |-> "pending",
     analysis_id |-> None, today_date |-> 0, current_timestamp_str |-> 0, i |-> 0,
     inserted_count |-> 0, updated_count |-> 0, skipped_count |-> 0,
     begun |-> [erank_keyword_analyses |-> <<>>, erank_keywords |-> <<>>]]

\* No call of add_opportunity or delete_opportunity_by_id has been made.
\* returned tells what kind of value the call gave back: "id" for the
\* lastrowid held in last_id, "None", "True" or "False".
NoOpportunityCall ==
    [fn |-> "none", data |-> <<>>, returned |-> "pending", last_id |-> 0, adds |-> 0]

\* The two ERANK tables, empty, on the first day; no analysis has been saved.
\* The opportunities table is empty and its AUTOINCREMENT sequence at 0.
NoDb ==
    [erank_keyword_analyses |-> <<>>, erank_keywords |-> <<>>,
     day |-> 1, saves |-> 0, returned |-> None, save |-> NoSave,
     opportunities |-> <<>>, sqlite_sequence |-> 0, call |-> NoOpportunityCall]

\* init_session_state: every form field and both text areas are the empty
\* string, the product is not digital, there are no tags and no price.
init_session_state ==
    [k \in {"opp_form_product_title", "opp_form_product_url", "opp_form_shop_name",
            "opp_form_shop_url", "opp_form_price_str", "opp_form_processing_time",
            "opp_form_shipping_cost_str",
            "opp_form_est_sales_str", "opp_form_est_revenue_str",
            "opp_form_total_sales_str", "opp_form_views_str",
            "opp_form_favorites_str", "opp_form_conversion_rate",
            "opp_form_listing_age", "opp_form_shop_age_overall",
            "opp_form_category", "opp_form_niche_tags", "opp_form_listing_type",
            "opp_form_last_30_days_sales_str", "opp_form_last_30_days_revenue_str",
            "opp_form_aliexpress_urls", "opp_form_notes",
            "pasted_html", "pasted_everbee_text", "is_digital",
            "tags_list", "etsy_price_float"} |->
        IF k = "etsy_price_float" THEN None
        ELSE IF k = "is_digital" THEN FALSE
        ELSE <<>>]

(***************************************************************************)
(* parse_erank_text_content as a state machine                             *)
(***************************************************************************)
NoErank == [lines |-> <<>>, extracted_seed_keyword |-> None,
            seed_keyword_line_index |-> -1, extracted_country_code |-> None,
            data_start_index |-> -1, data_end_index |-> 0,
            current_index |-> 0, keywords_data |-> <<>>]

\* The state after the initialisations of the function.
ErankInit ==
    /\ raw \in ErankInputs
    /\ pc = "erank_seed"
    /\ erank = [NoErank EXCEPT !.lines = ErankLines(raw),
                               !.data_end_index = Len(ErankLines(raw))]
    /\ today = NoDate
    /\ everbee = NoEverbee
    /\ etsy = NoEtsy
    /\ delivery = NoDelivery
    /\ calls = NoCalls
    /\ db = NoDb
    /\ session = init_session_state

\* Steps 1 and 1b: seed keyword and country code.
ErankFindSeed ==
    /\ pc = "erank_seed"
    /\ LET idx == SeedLineIndex(erank.lines)
       IN  erank' = [erank EXCEPT
                !.seed_keyword_line_index = idx,
                !.extracted_seed_keyword =
                    IF idx = -1 THEN None ELSE SeedOfLine(At(erank.lines, idx)),
                !.extracted_country_code = CountryCode(erank.lines, idx)]
    /\ pc' = "erank_bounds"
    /\ UNCHANGED ErankFrame

\* Steps 2 and 3 when the start sentinel gives a data start.
ErankFindData ==
    /\ pc = "erank_bounds"
    /\ LET start == DataStartIndex(erank.lines, erank.seed_keyword_line_index)
       IN  /\ start # -1
           /\ erank' = [erank EXCEPT
                    !.data_start_index = start,
                    !.data_end_index = DataEndIndex(erank.lines, start),
                    !.current_index = start]
    /\ pc' = "erank_chunks"
    /\ UNCHANGED ErankFrame

\* Step 2 when it gives none: the two early returns with an empty list.
ErankNoData ==
    /\ pc = "erank_bounds"
    /\ DataStartIndex(erank.lines, erank.seed_keyword_line_index) = -1
    /\ pc' = "erank_done"
    /\ UNCHANGED erank
    /\ UNCHANGED ErankFrame

\* One turn of the while loop that accepts the chunk at the cursor.
ErankChunkAccept ==
    /\ pc = "erank_chunks"
    /\ erank.current_index < erank.data_end_index
    /\ ~NotEnoughLines(erank.current_index, erank.data_end_index)
    /\ ChunkValid(erank.lines, erank.current_index)
    /\ erank' = [erank EXCEPT
            !.keywords_data = Append(@, keyword_entry(erank.lines, erank.current_index)),
            !.current_index = @ + ChunkLen]
    /\ UNCHANGED pc
    /\ UNCHANGED ErankFrame

\* One turn that rejects it: one line on, then past the blank lines.
ErankChunkReject ==
    /\ pc = "erank_chunks"
    /\ erank.current_index < erank.data_end_index
    /\ ~NotEnoughLines(erank.current_index, erank.data_end_index)
    /\ ~ChunkValid(erank.lines, erank.current_index)
    /\ erank' = [erank EXCEPT
            !.current_index = SkipFrom(erank.lines, erank.current_index, erank.data_end_index)]
    /\ UNCHANGED pc
    /\ UNCHANGED ErankFrame

\* The loop ends: the cursor reached the end, or fewer than nine lines remain.
ErankChunkExit ==
    /\ pc = "erank_chunks"
    /\ \/ erank.current_index >= erank.data_end_index
       \/ NotEnoughLines(erank.current_index, erank.data_end_index)
    /\ pc' = "erank_done"
    /\ UNCHANGED erank
    /\ UNCHANGED ErankFrame

ErankNext ==
    \/ ErankFindSeed
    \/ ErankFindData
    \/ ErankNoData
    \/ ErankChunkAccept
    \/ ErankChunkReject
    \/ ErankChunkExit

SpecErank == ErankInit /\ [][ErankNext]_vars

(***************************************************************************)
(* Claims about parse_erank_text_content                                   *)
(***************************************************************************)
\* The first line that is the start sentinel, else -1.
FirstSentinel(ls) ==
    LET hits == {i \in 0..(Len(ls) - 1) : At(ls, i) = exclude_marker}
    IN  IF hits = {} THEN -1 ELSE Min(hits)

\* The region after the sentinel: from two lines after it to the first line
\* holding an end sentinel, or to the end of the input.
RegionStart(ls) == FirstSentinel(ls) + 2

RegionEnd(ls) ==
    LET hits == {i \in RegionStart(ls)..(Len(ls) - 1) : IsEndMarker(At(ls, i))}
    IN  IF hits = {} THEN Len(ls) ELSE Min(hits)

\* A well-formed chunk occupies lines c..c+8.
WellFormedAt(ls, c) ==
    /\ c + 9 <= Len(ls)
    /\ \E k \in 1..Len(At(ls, c)) : At(ls, c)[k] \in Alpha
    /\ counts_match(At(ls, c + 3))
    /\ is_likely_google(At(ls, c + 8))

\* The entry the claim expects from the chunk at c.
EntryOf(ls, c) ==
    [Keyword          |-> At(ls, c),
     Avg_Searches     |-> At(ls, c + 4),
     Avg_Clicks       |-> At(ls, c + 5),
     Avg_CTR          |-> At(ls, c + 6),
     Etsy_Competition |-> At(ls, c + 7),
     Google_Searches  |-> At(ls, c + 8)]

\* The region consists of k well-formed chunks back-to-back.
RegionIsChunks(ls, k) ==
    /\ FirstSentinel(ls) # -1
    /\ RegionEnd(ls) - RegionStart(ls) = 9 * k
    /\ \A j \in 0..(k - 1) : WellFormedAt(ls, RegionStart(ls) + 9 * j)

ErankDone == pc = "erank_done"

\* C1: when the region after the start sentinel consists of k >= 1 well-formed
\* 9-line chunks back-to-back, exactly k entries are returned, the i-th built
\* from the i-th chunk.
C1_ChunksInOrder ==
    ErankDone =>
        \A k \in 1..(MaxChunks + 1) :
            RegionIsChunks(erank.lines, k) =>
                erank.keywords_data =
                    [j \in 1..k |-> EntryOf(erank.lines, RegionStart(erank.lines) + 9 * (j - 1))]

C1_Witness ==
    /\ ErankDone
    /\ RegionIsChunks(erank.lines, MaxChunks)
    /\ Len(erank.keywords_data) = MaxChunks
    /\ erank.keywords_data[1].Keyword # erank.keywords_data[MaxChunks].Keyword

\* The region is a valid chunk, a chunk that fails validation at its own
\* start, and another valid chunk.
Sandwich(ls) ==
    /\ FirstSentinel(ls) # -1
    /\ RegionEnd(ls) - RegionStart(ls) = 27
    /\ WellFormedAt(ls, RegionStart(ls))
    /\ ~WellFormedAt(ls, RegionStart(ls) + 9)
    /\ WellFormedAt(ls, RegionStart(ls) + 18)

TwoOuterEntries(ls) ==
    <<EntryOf(ls, RegionStart(ls)), EntryOf(ls, RegionStart(ls) + 18)>>

\* C2 as stated: a corrupted chunk between two valid ones is skipped, and the
\* two entries returned are those of the valid chunks.
C2_AsStated ==
    (ErankDone /\ Sandwich(erank.lines)) =>
        erank.keywords_data = TwoOuterEntries(erank.lines)

\* No window that starts inside the corrupted chunk, after its first line,
\* passes the validation.
NoInnerWindow(ls) ==
    \A c \in (RegionStart(ls) + 10)..(RegionStart(ls) + 17) :
        c + 9 <= RegionEnd(ls) => ~WellFormedAt(ls, c)

\* C2 amended: the same, provided no 9-line window starting at lines 2..9 of
\* the corrupted chunk passes the structural validation.
C2_SkippedUnlessInnerWindow ==
    (ErankDone /\ Sandwich(erank.lines) /\ NoInnerWindow(erank.lines)) =>
        erank.keywords_data = TwoOuterEntries(erank.lines)

C2_Witness ==
    /\ ErankDone
    /\ Sandwich(erank.lines)
    /\ NoInnerWindow(erank.lines)
    /\ Len(erank.keywords_data) = 2

\* ceramic mug
CeramicMug == <<"c","e","r","a","m","i","c"," ","m","u","g">>

HasLine(ls, l) == \E i \in 0..(Len(ls) - 1) : At(ls, i) = l

\* C3: for an input containing the line
\*   Keywords related to "ceramic mug"
\* the seed keyword returned is exactly: ceramic mug
C3_SeedKeyword ==
    (ErankDone /\ HasLine(erank.lines, SeedLineSpec)) =>
        erank.extracted_seed_keyword = CeramicMug

\* The start sentinel is not among the lines the search looks at.
SentinelMissing(ls, seedIdx) ==
    \A i \in (IF seedIdx # -1 THEN seedIdx + 1 ELSE 0)..(Len(ls) - 2) :
        At(ls, i) # exclude_marker

\* The entries the chunk loop decodes from the lines cur..end-1.
RECURSIVE DecodeScope(_, _, _)
DecodeScope(ls, cur, end) ==
    IF cur + 9 > end THEN <<>>
    ELSE IF WellFormedAt(ls, cur)
         THEN <<EntryOf(ls, cur)>> \o DecodeScope(ls, cur + 9, end)
         ELSE DecodeScope(ls, cur + 1, end)

RECURSIVE SplitEscaped(_)
SplitEscaped(line) ==
    LET k == Find(line, <<"\\", "n">>, 0)
    IN  IF k = -1 THEN <<line>>
        ELSE <<Slice(line, 0, k)>> \o SplitEscaped(Slice(line, k + 2, Len(line)))

\* lines = [line.strip() for line in lines_unfiltered if line.strip()]
EverbeeLines(text) ==
    LET lines_unfiltered == Flatten([k \in DOMAIN text |-> SplitEscaped(text[k])])
        stripped == [k \in DOMAIN lines_unfiltered |-> Strip(lines_unfiltered[k])]
    IN  SelectSeq(stripped, LAMBDA l : l # <<>>)

\* The number a string of digits denotes.
RECURSIVE DigitsToInt(_)
DigitsToInt(ds) ==
    LET DigitSeq == <<"0", "1", "2", "3", "4", "5", "6", "7", "8", "9">>
        DigitVal(c) == (CHOOSE k \in DOMAIN DigitSeq : DigitSeq[k] = c) - 1
    IN  IF ds = <<>> THEN 0
        ELSE 10 * DigitsToInt(SubSeq(ds, 1, Len(ds) - 1)) + DigitVal(ds[Len(ds)])

\* str() of a natural number.
RECURSIVE IntToDigits(_)
IntToDigits(n) ==
    LET DigitSeq == <<"0", "1", "2", "3", "4", "5", "6", "7", "8", "9">>
    IN  IF n < 10 THEN <<DigitSeq[n + 1]>>
        ELSE IntToDigits(n \div 10) \o <<DigitSeq[(n % 10) + 1]>>

\* safe_int: int(re.sub(r'[^\d-]', '', str(val_str))), None when that raises
\* or the input is empty.  An int is held as the digits str() shows.
safe_int(val_str) ==
    LET cleaned == SelectSeq(val_str, LAMBDA c : c \in Digit \cup {"-"})
    IN  IF val_str = <<>> \/ val_str = None THEN None
        ELSE IF IsDigitStr(cleaned) THEN IntToDigits(DigitsToInt(cleaned))
        ELSE IF Len(cleaned) > 1 /\ Head(cleaned) = "-" /\ IsDigitStr(Tail(cleaned))
             THEN (IF DigitsToInt(Tail(cleaned)) = 0 THEN <<"0">>
                   ELSE <<"-">> \o IntToDigits(DigitsToInt(Tail(cleaned))))
        ELSE None

\* The three currency signs of the patterns: dollar, pound, euro.
Currency == {"$", "(pound)", "(euro)"}

\* safe_float: float(re.sub(r'[\$\£€,]', '', str(val_str)).strip()), None
\* when that raises or the input is empty, for the strings the money pattern
\* lets through (a sign, then digits, commas and dots).  The float n / 10^d
\* is held as <<n, d>>, None as the empty sequence.
safe_float(val_str) ==
    LET cleaned == Strip(SelectSeq(val_str, LAMBDA c : c \notin Currency \cup {","}))
        dots == {k \in DOMAIN cleaned : cleaned[k] = "."}
        digits == SelectSeq(cleaned, LAMBDA c : c \in Digit)
    IN  IF val_str = <<>> \/ val_str = None THEN <<>>
        ELSE IF /\ AllIn(cleaned, Digit \cup {"."})
                /\ Cardinality(dots) <= 1
                /\ digits # <<>>
             THEN <<DigitsToInt(digits),
                    IF dots = {} THEN 0 ELSE Len(cleaned) - (CHOOSE k \in dots : TRUE)>>
        ELSE <<>>

get_revenue_float(revenue_str) == safe_float(revenue_str)

\* a > b for two floats held as <<n, d>>.
FloatGreater(a, b) ==
    LET RECURSIVE Pow10(_)
        Pow10(d) == IF d = 0 THEN 1 ELSE 10 * Pow10(d - 1)
    IN  a[1] * Pow10(b[2]) > b[1] * Pow10(a[2])

(***************************************************************************)
(* Step 1: the table boundaries                                            *)
(***************************************************************************)
start_keywords ==
    { <<"C","u","s","t","o","m","i","z","e"," ","b","u","t","t","o","n"," ","i","n"," ","T","o","o","l","b","a","r">>,
      <<"F","i","l","t","e","r"," ","b","u","t","t","o","n"," ","i","n"," ","T","o","o","l","b","a","r">>,
      <<"E","x","p","o","r","t"," ","b","u","t","t","o","n"," ","i","n"," ","T","o","o","l","b","a","r">> }

header_keywords ==
    << <<"P","r","o","d","u","c","t">>,
       <<"S","h","o","p"," ","N","a","m","e">>,
       <<"P","r","i","c","e">>,
       <<"M","o","."," ","S","a","l","e","s">>,
       <<"M","o","."," ","R","e","v","e","n","u","e">>,
       <<"T","o","t","a","l"," ","S","a","l","e","s">> >>

\* The table start used when no header row is found.
FallbackStartIndex == 27

\* header_line_index: the header row (at least 4 header keywords, "Product"
\* among them) within the four lines after the first button marker that has
\* one, else -1.
HeaderLineIndex(lines) ==
    LET n == Len(lines)
        IsHeaderRow(l) ==
            /\ Cardinality({k \in DOMAIN header_keywords : Contains(l, header_keywords[k])}) >= 4
            /\ Contains(l, header_keywords[1])
        headerAfter(i) == {j \in (i + 1)..(Min({i + 5, n}) - 1) : IsHeaderRow(At(lines, j))}
        buttons == {i \in 0..(n - 1) :
                       /\ \E kw \in start_keywords : Contains(At(lines, i), kw)
                       /\ headerAfter(i) # {}}
    IN  IF buttons = {} THEN -1 ELSE Min(headerAfter(Min(buttons)))

\* The table start if the fallback were the first line of the input.
TableStartIndex_FromFirstLine(lines) ==
    IF HeaderLineIndex(lines) = -1 THEN 0
    ELSE HeaderLineIndex(lines) + 1

\* table_start_index
TableStartIndex(lines) ==
    IF HeaderLineIndex(lines) = -1 THEN FallbackStartIndex
    ELSE HeaderLineIndex(lines) + 1

\* One of the end_keywords patterns matches the line (re.IGNORECASE):
\* ^Showing: \d+ of \d+$, ^Listing Details$, ^Tags$, ^Related Searches$,
\* ^Keyword Score$
IsTableEnd(l) ==
    LET low == Lower(l)
        showing == <<"s","h","o","w","i","n","g",":"," ">>
        of == <<" ","o","f"," ">>
    IN  \/ low \in { <<"l","i","s","t","i","n","g"," ","d","e","t","a","i","l","s">>,
                     <<"t","a","g","s">>,
                     <<"r","e","l","a","t","e","d"," ","s","e","a","r","c","h","e","s">>,
                     <<"k","e","y","w","o","r","d"," ","s","c","o","r","e">> }
        \/ /\ StartsWith(low, showing)
           /\ \E k \in (Len(showing) + 1)..(Len(low) - Len(of) - 1) :
                 /\ OccursAt(low, of, k)
                 /\ IsDigitStr(Slice(low, Len(showing), k))
                 /\ IsDigitStr(Slice(low, k + Len(of), Len(low)))

\* table_end_index
TableEndIndex(lines, start) ==
    LET hits == {i \in start..(Len(lines) - 1) : IsTableEnd(At(lines, i))}
    IN  IF hits = {} THEN Len(lines) ELSE Min(hits)

(***************************************************************************)
(* Steps 2 and 3: the 17-line chunks of the table                          *)
(***************************************************************************)
expected_fields_in_order ==
    <<"Product", "Shop Name", "Price", "Mo. Sales", "Mo. Revenue", "Total Sales",
      "Reviews", "Listing Age", "Favorites", "Avg. Reviews", "Views", "Category",
      "Shop Age", "Visibility Score", "Conversion Rate", "Total Shop Sales",
      "Listing Type">>

num_expected_fields == Len(expected_fields_in_order)

\* ^[\d,]+$
IsCount(l) == Len(l) > 0 /\ AllIn(l, Digit \cup {","})

\* re.match(field_regex, line_to_check, re.IGNORECASE) for the field's pattern.
FieldMatches(field_name, l) ==
    LET AlphaNum == Alpha \cup Digit
        \* digits, or what comes before a final percent sign
        Percent(cls) ==
            \/ Len(l) > 0 /\ AllIn(l, cls)
            \/ Len(l) >= 2 /\ l[Len(l)] = "%" /\ AllIn(Slice(l, 0, Len(l) - 1), cls)
    IN  CASE field_name \in {"Product", "Category"} ->
                \* .+
                Len(l) > 0
          [] field_name = "Shop Name" ->
                \* ^[A-Za-z0-9][A-Za-z0-9\s\-\'&]*[A-Za-z0-9]$
                /\ Len(l) >= 2
                /\ l[1] \in AlphaNum
                /\ l[Len(l)] \in AlphaNum
                /\ \A k \in 2..(Len(l) - 1) : l[k] \in AlphaNum \cup Space \cup {"-", "'", "&"}
          [] field_name \in {"Price", "Mo. Revenue"} ->
                \* ^[\$\£€][\d,.]+$
                /\ Len(l) >= 2
                /\ l[1] \in Currency
                /\ \A k \in 2..Len(l) : l[k] \in Digit \cup {",", "."}
          [] field_name \in {"Mo. Sales", "Total Sales", "Reviews", "Favorites",
                             "Avg. Reviews", "Views", "Total Shop Sales"} ->
                IsCount(l)
          [] field_name \in {"Listing Age", "Shop Age"} ->
                \* ^\d+\s+Mo\.?$|\d+\s+months?$
                \E a \in 1..Len(l) : \E b \in (a + 1)..Len(l) :
                    /\ \A k \in 1..a : l[k] \in Digit
                    /\ \A k \in (a + 1)..b : l[k] \in Space
                    /\ Lower(Slice(l, b, Len(l))) \in
                           { <<"m","o">>, <<"m","o",".">>,
                             <<"m","o","n","t","h">>, <<"m","o","n","t","h","s">> }
          [] field_name = "Visibility Score" ->
                \* ^\d+%?$
                Percent(Digit)
          [] field_name = "Conversion Rate" ->
                \* ^[\d.]+%?$
                Percent(Digit \cup {"."})
          [] field_name = "Listing Type" ->
                \* ^(Physical|Digital)$
                Lower(l) \in { <<"p","h","y","s","i","c","a","l">>,
                               <<"d","i","g","i","t","a","l">> }

\* The chunk test if it stopped before the last field, the listing type.
AllFieldsFound_ButListingType(lines, i) ==
    \A f \in 1..(num_expected_fields - 1) :
        FieldMatches(expected_fields_in_order[f], At(lines, i + f - 1))

\* all_fields_found_in_chunk for the chunk at line i.
AllFieldsFound(lines, i) ==
    \A f \in 1..num_expected_fields :
        FieldMatches(expected_fields_in_order[f], At(lines, i + f - 1))

\* parsed_chunk_data for the chunk at line i, with its 'Mo. Revenue Num'; the
\* visibility score keeps its leading digits only.
parsed_chunk_data(lines, i) ==
    LET FieldIndex(name) ==
            CHOOSE f \in DOMAIN expected_fields_in_order : expected_fields_in_order[f] = name
        Field(name) == At(lines, i + FieldIndex(name) - 1)
        LeadingDigits(l) ==
            SubSeq(l, 1, Min({k \in 1..(Len(l) + 1) : k = Len(l) + 1 \/ l[k] \notin Digit}) - 1)
    IN  [k \in {expected_fields_in_order[f] : f \in 1..num_expected_fields}
               \cup {"Mo. Revenue Num"} |->
            IF k = "Mo. Revenue Num" THEN get_revenue_float(Field("Mo. Revenue"))
            ELSE IF k = "Visibility Score" THEN LeadingDigits(Field(k))
            ELSE Field(k)]

\* "if i + num_expected_fields > table_end_index: break"
TableTooShort(i, tableEnd) == i + num_expected_fields > tableEnd

(***************************************************************************)
(* Steps 4 and 5: the highest revenue row                                  *)
(***************************************************************************)
\* The selection loop if it also kept a listing whose revenue equals the
\* highest so far.
RECURSIVE HighestFrom_KeepsTies(_, _, _, _)
HighestFrom_KeepsTies(listings, k, max_revenue, best) ==
    IF k > Len(listings) THEN best
    ELSE LET revenue_num == listings[k]["Mo. Revenue Num"]
         IN  IF revenue_num # <<>> /\ ~FloatGreater(max_revenue, revenue_num)
             THEN HighestFrom_KeepsTies(listings, k + 1, revenue_num, k)
             ELSE HighestFrom_KeepsTies(listings, k + 1, max_revenue, best)

\* The index in all_listings_data of highest_revenue_listing, 0 for None:
\* starting from max_revenue, the loop keeps each listing whose revenue
\* exceeds all before it.
RECURSIVE HighestFrom(_, _, _, _)
HighestFrom(listings, k, max_revenue, best) ==
    IF k > Len(listings) THEN best
    ELSE LET revenue_num == listings[k]["Mo. Revenue Num"]
         IN  IF revenue_num # <<>> /\ FloatGreater(revenue_num, max_revenue)
             THEN HighestFrom(listings, k + 1, revenue_num, k)
             ELSE HighestFrom(listings, k + 1, max_revenue, best)

\* max_revenue = -1.0
HighestRevenueIndex(listings) == HighestFrom(listings, 1, <<-1, 0>>, 0)

\* select_assignment_map: table column, key of parsed_data, converted by safe_int.
select_assignment_map ==
    << <<"Product", "product_title", FALSE>>,
       <<"Shop Name", "shop_name", FALSE>>,
       <<"Price", "price_str", FALSE>>,
       <<"Mo. Sales", "monthly_sales", TRUE>>,
       <<"Mo. Revenue", "monthly_revenue_str_display", FALSE>>,
       <<"Total Sales", "total_sales", TRUE>>,
       <<"Reviews", "reviews", TRUE>>,
       <<"Listing Age", "listing_age", FALSE>>,
       <<"Favorites", "favorites", TRUE>>,
       <<"Avg. Reviews", "monthly_reviews", TRUE>>,
       <<"Views", "views", TRUE>>,
       <<"Category", "category", FALSE>>,
       <<"Shop Age", "shop_age_overall", FALSE>>,
       <<"Visibility Score", "visibility_score", FALSE>>,
       <<"Conversion Rate", "conversion_rate", FALSE>>,
       <<"Listing Type", "listing_type", FALSE>> >>

\* The empty dict.
EmptyDict == [k \in {} |-> <<>>]

\* Steps 4 and 5 if the first listing were taken when no listing has a
\* revenue number.
SelectParsedData_FirstAsFallback(listings) ==
    LET best == IF HighestRevenueIndex(listings) = 0 /\ listings # <<>> THEN 1
                ELSE HighestRevenueIndex(listings)
        Targets == {select_assignment_map[k][2] : k \in DOMAIN select_assignment_map}
        Row(target) == CHOOSE j \in DOMAIN select_assignment_map :
                           select_assignment_map[j][2] = target
    IN  IF best = 0 THEN EmptyDict
        ELSE [target \in Targets |->
                 LET raw_value == listings[best][select_assignment_map[Row(target)][1]]
                 IN  IF select_assignment_map[Row(target)][3]
                     THEN safe_int(raw_value) ELSE raw_value]

\* parsed_data after steps 4 and 5: filled from the selected listing, left
\* empty when highest_revenue_listing is None.
SelectParsedData(listings) ==
    LET best == HighestRevenueIndex(listings)
        Targets == {select_assignment_map[k][2] : k \in DOMAIN select_assignment_map}
        Row(target) == CHOOSE j \in DOMAIN select_assignment_map :
                           select_assignment_map[j][2] = target
    IN  IF best = 0 THEN EmptyDict
        ELSE [target \in Targets |->
                 LET raw_value == listings[best][select_assignment_map[Row(target)][1]]
                 IN  IF select_assignment_map[Row(target)][3]
                     THEN safe_int(raw_value) ELSE raw_value]

(***************************************************************************)
(* The trends section: last 30 days sales                                  *)
(***************************************************************************)
\* line.strip().lower() == word
IsWord(l, word) == Lower(Strip(l)) = word

\* last_30_sales_value_str, None when the section or the pattern is missing:
\* after the 'trends' line and before the next 'tags', 'more details' or
\* 'related searches' line, the first 'sales' line followed within three
\* lines by a number (and by no 'revenue' before it) that is itself followed
\* within three lines by 'revenue'.
Last30DaysSales(lines) ==
    LET n == Len(lines)
        revenue == <<"r","e","v","e","n","u","e">>
        headers == {i \in 0..(n - 1) : IsWord(At(lines, i), <<"t","r","e","n","d","s">>)}
        trends_search_start_index == Min(headers) + 1
        ends == {i \in trends_search_start_index..(n - 1) :
                    \E w \in {<<"t","a","g","s">>, <<"m","o","r","e"," ","d","e","t","a","i","l","s">>, <<"r","e","l","a","t","e","d"," ","s","e","a","r","c","h","e","s">>} : IsWord(At(lines, i), w)}
        trends_search_end_index == IF ends = {} THEN n ELSE Min(ends)
        \* the lines after i that stop the search for the number
        stops(i) == {j \in (i + 1)..(Min({i + 4, trends_search_end_index}) - 1) :
                        IsDigitStr(Strip(At(lines, j))) \/ IsWord(At(lines, j), revenue)}
        confirmed(i) ==
            /\ IsWord(At(lines, i), <<"s","a","l","e","s">>)
            /\ stops(i) # {}
            /\ IsDigitStr(Strip(At(lines, Min(stops(i)))))
            /\ \E k \in (Min(stops(i)) + 1)..(Min({Min(stops(i)) + 4, trends_search_end_index}) - 1) :
                   IsWord(At(lines, k), revenue)
        hits == {i \in trends_search_start_index..(trends_search_end_index - 1) : confirmed(i)}
    IN  IF headers = {} \/ hits = {} THEN None
        ELSE Strip(At(lines, Min(stops(Min(hits)))))

(***************************************************************************)
(* The tags section                                                        *)
(***************************************************************************)
\* ^\s*More Details\s*$   (re.IGNORECASE)
IsMoreDetails(l) == IsWord(l, <<"m","o","r","e"," ","d","e","t","a","i","l","s">>)

\* block_start_index, -1 when there is no start marker: the line after the
\* first 'Keyword Score' line, else the line after the first 'Tags' line and
\* after the Volume / Competition / Keyword Score header lines that follow it.
TagBlockStart(lines) ==
    LET n == Len(lines)
        scores == {i \in 0..(n - 1) : Lower(At(lines, i)) = <<"k","e","y","w","o","r","d"," ","s","c","o","r","e">>}
        tags == {i \in 0..(n - 1) : Lower(At(lines, i)) = <<"t","a","g","s">>}
        IsColumnHeader(l) ==
            \E w \in {<<"v","o","l","u","m","e">>, <<"c","o","m","p","e","t","i","t","i","o","n">>, <<"k","e","y","w","o","r","d"," ","s","c","o","r","e">>} :
                \E k \in 0..Len(l) : Lower(Slice(l, 0, k)) = w /\ AllIn(Slice(l, k, Len(l)), Space)
        after == {k \in (Min(tags) + 1)..n : k = n \/ ~IsColumnHeader(At(lines, k))}
    IN  IF scores # {} THEN Min(scores) + 1
        ELSE IF tags # {} THEN Min(after)
        ELSE -1

\* details_marker_index: the first 'More Details' line at or after the block
\* start, -1 when there is none or no block start.
DetailsMarkerIndex(lines) ==
    LET marks == {k \in TagBlockStart(lines)..(Len(lines) - 1) : IsMoreDetails(At(lines, k))}
    IN  IF TagBlockStart(lines) = -1 \/ marks = {} THEN -1 ELSE Min(marks)

\* tag_block_lines, empty when the block is not processed.
TagBlockLines(lines) ==
    LET block_start_index == TagBlockStart(lines)
        block_end_index == IF DetailsMarkerIndex(lines) = -1 THEN Len(lines)
                           ELSE DetailsMarkerIndex(lines)
    IN  IF block_start_index # -1 /\ block_start_index < block_end_index
        THEN Slice(lines, block_start_index, block_end_index)
        ELSE <<>>

\* The level pattern if it matched no line.
IsLevel_Never(l) == FALSE

\* ^(High|Medium|Low)$   (re.IGNORECASE)
IsLevel(l) == Lower(l) \in {<<"h","i","g","h">>, <<"m","e","d","i","u","m">>, <<"l","o","w">>}

\* One pass of the tag loop at cursor i of a block of n lines: what happens
\* ("emit", "skip" or "break"), the tag and the lines consumed.
TagStep(block, i) ==
    LET n == Len(block)
        line(k) == Strip(At(block, k))
        name_ok == /\ \E k \in DOMAIN line(i) : line(i)[k] \in Alpha
                   /\ ~AllIn(line(i), Digit \cup Space \cup {",", ".", "%"})
                   /\ ~IsLevel(line(i))
        has_level == i + 3 < n /\ IsLevel(line(i + 3))
        score_line_index == IF has_level THEN i + 4 ELSE i + 3
        \* lines[score_line_index].strip()
        score_line == IF has_level THEN line(i + 4) ELSE line(i + 3)
        tag == [name |-> line(i), volume |-> line(i + 1), competition |-> line(i + 2),
                level |-> IF has_level THEN line(i + 3) ELSE <<"N","/","A">>,
                score |-> score_line]
        result(kind) == [kind |-> kind,
                         tag |-> IF kind = "emit" THEN tag ELSE <<>>,
                         lines_consumed |-> IF kind = "emit" THEN score_line_index - i + 1 ELSE 0]
    IN  IF ~name_ok THEN result("skip")
        ELSE IF ~(i + 1 < n) THEN result("break")
        ELSE IF ~IsCount(line(i + 1)) THEN result("skip")
        ELSE IF ~(i + 2 < n) THEN result("break")
        ELSE IF ~IsCount(line(i + 2)) THEN result("skip")
        ELSE IF ~(score_line_index < n) THEN result("break")
        ELSE IF Len(score_line) > 0 /\ AllIn(score_line, Digit \cup {",", "."})
             THEN result("emit")
        ELSE result("skip")

(***************************************************************************)
(* The More Details section and the notes                                  *)
(***************************************************************************)
known_keys ==
    << <<"W","h","e","n"," ","M","a","d","e">>,
       <<"L","i","s","t","i","n","g"," ","T","y","p","e">>,
       <<"C","u","s","t","o","m","i","z","a","b","l","e">>,
       <<"C","r","a","f","t"," ","S","u","p","p","l","y">>,
       <<"P","e","r","s","o","n","a","l","i","z","e","d">>,
       <<"A","u","t","o"," ","R","e","n","e","w">>,
       <<"H","a","s"," ","v","a","r","i","a","t","i","o","n","s">>,
       <<"P","l","a","c","e","m","e","n","t","s"," ","o","f"," ","L","i","s","t","i","n","g"," ","S","h","o","p","s">>,
       <<"T","i","t","l","e"," ","c","h","a","r","a","c","t","e","r"," ","c","o","u","n","t">>,
       <<"#"," ","o","f"," ","t","a","g","s">>,
       <<"W","h","o"," ","M","a","d","e">> >>

\* The index in known_keys of the key whose pattern ^\s*key\s*$ matches the
\* line (re.IGNORECASE), 0 when the line is no known key.
MatchedKey(l) ==
    LET hits == {k \in DOMAIN known_keys : Lower(Strip(l)) = Lower(known_keys[k])}
    IN  IF hits = {} THEN 0 ELSE Min(hits)

\* sep.join(parts)
RECURSIVE Join(_, _)
Join(parts, sep) ==
    IF parts = <<>> THEN <<>>
    ELSE IF Len(parts) = 1 THEN parts[1]
    ELSE parts[1] \o sep \o Join(Tail(parts), sep)

\* d[key] = value
Put(d, key, value) == [k \in DOMAIN d \cup {key} |-> IF k = key THEN value ELSE d[k]]

\* The value of a finished key: its lines joined by a space and stripped;
\* for 'Who Made', re.sub(r'\s+\d+$', '', value).strip(); 'Unknown' if empty.
DetailValue(current_key, current_value_lines) ==
    LET joined == Strip(Join(current_value_lines, <<" ">>))
        \* where a final run of whitespace then digits starts, if there is one
        cuts == {k \in 1..Len(joined) :
                    /\ joined[k] \in Space
                    /\ (k = 1 \/ joined[k - 1] \notin Space)
                    /\ \E d \in (k + 1)..Len(joined) :
                          /\ \A x \in k..(d - 1) : joined[x] \in Space
                          /\ \A x \in d..Len(joined) : joined[x] \in Digit}
        value == IF known_keys[current_key] = <<"W","h","o"," ","M","a","d","e">> /\ cuts # {}
                 THEN Strip(SubSeq(joined, 1, Min(cuts) - 1))
                 ELSE joined
    IN  IF value = <<>> THEN <<"U","n","k","n","o","w","n">> ELSE value

\* The finished key if every 'Listing Type' entry were assigned, without the
\* test for a listing_type that parsed_data holds already.
FlushDetail_Overwrites(current_key, current_value_lines, acc) ==
    LET value == DetailValue(current_key, current_value_lines)
    IN  IF current_key = 0 \/ current_value_lines = <<>> THEN acc
        ELSE [details_list |-> Append(acc.details_list, [key |-> known_keys[current_key], value |-> value]),
              parsed_data |->
                  IF known_keys[current_key] = <<"L","i","s","t","i","n","g"," ","T","y","p","e">>
                  THEN Put(acc.parsed_data, "listing_type", value)
                  ELSE acc.parsed_data]

\* "if current_key and current_value_lines": the finished key goes to
\* details_list, and to listing_type if that key is not in parsed_data yet.
FlushDetail(current_key, current_value_lines, acc) ==
    LET value == DetailValue(current_key, current_value_lines)
    IN  IF current_key = 0 \/ current_value_lines = <<>> THEN acc
        ELSE [details_list |-> Append(acc.details_list, [key |-> known_keys[current_key], value |-> value]),
              parsed_data |->
                  IF known_keys[current_key] = <<"L","i","s","t","i","n","g"," ","T","y","p","e">> /\ "listing_type" \notin DOMAIN acc.parsed_data
                  THEN Put(acc.parsed_data, "listing_type", value)
                  ELSE acc.parsed_data]

\* The loop over the lines from i on, and the last key after it.
RECURSIVE DetailsFold(_, _, _, _, _)
DetailsFold(lines, i, current_key, current_value_lines, acc) ==
    IF i >= Len(lines) THEN FlushDetail(current_key, current_value_lines, acc)
    ELSE IF MatchedKey(At(lines, i)) # 0
         THEN DetailsFold(lines, i + 1, MatchedKey(At(lines, i)), <<>>,
                          FlushDetail(current_key, current_value_lines, acc))
    ELSE IF current_key # 0
         THEN DetailsFold(lines, i + 1, current_key,
                          Append(current_value_lines, Strip(At(lines, i))), acc)
    ELSE DetailsFold(lines, i + 1, current_key, current_value_lines, acc)

\* details_start_index: after the marker the tags section found, else after
\* the first 'More Details' line, else -1.
DetailsStartIndex(lines, details_marker_index) ==
    LET marks == {i \in 0..(Len(lines) - 1) : IsMoreDetails(At(lines, i))}
    IN  IF details_marker_index # -1 /\ details_marker_index + 1 # 0
        THEN details_marker_index + 1
        ELSE IF marks = {} THEN -1 ELSE Min(marks) + 1

\* parsed_data as returned: the More Details section may set listing_type,
\* and 'notes' is always assigned, "\n".join(notes).
ParseDetails(lines, parsed_data, details_marker_index) ==
    LET details_start_index == DetailsStartIndex(lines, details_marker_index)
        acc == IF details_start_index # -1 /\ details_start_index < Len(lines)
               THEN DetailsFold(lines, details_start_index, 0, <<>>,
                                [details_list |-> <<>>, parsed_data |-> parsed_data])
               ELSE [details_list |-> <<>>, parsed_data |-> parsed_data]
        notes == IF acc.details_list = <<>> THEN <<>>
                 ELSE <<<<"\n","-","-","-"," ","E","v","e","r","b","e","e"," ","M","o","r","e"," ","D","e","t","a","i","l","s"," ","-","-","-">>>> \o
                      [k \in DOMAIN acc.details_list |->
                          <<"-", " ">> \o acc.details_list[k].key \o <<":", " ">>
                              \o acc.details_list[k].value]
    IN  Put(acc.parsed_data, "notes", Join(notes, <<"\n">>))

(***************************************************************************)
(* The 'Parse Everbee Text' button                                         *)
(***************************************************************************)
\* d.get(key, default)
Get(d, key, default) == IF key \in DOMAIN d THEN d[key] ELSE default

\* str(value) of a string, of an int held as digits, or of None.
Str(value) == IF value = None THEN <<"N", "o", "n", "e">> ELSE value

\* f"{(price_val * sales_30d_int):.2f}" for a price n / 10^d with at most two
\* decimals; "Error" cannot happen for a sales string of digits.
Last30DaysRevenue(price_val, sales_30d_str) ==
    LET cents == price_val[1] * DigitsToInt(sales_30d_str)
                    * (IF price_val[2] = 0 THEN 100 ELSE IF price_val[2] = 1 THEN 10 ELSE 1)
    IN  IntToDigits(cents \div 100) \o <<".">>
            \o IntToDigits((cents % 100) \div 10) \o IntToDigits(cents % 10)

\* The handler if it took the price of the table record into the form, as
\* it does for the title and the shop name.
EverbeeFormUpdate_TakesPrice(state, parsed_data) ==
    [state EXCEPT
        !["opp_form_product_title"] = Get(parsed_data, "product_title", @),
        !["opp_form_shop_name"] = Get(parsed_data, "shop_name", @),
        !["opp_form_price_str"] = Get(parsed_data, "price_str", @)]

\* st.session_state after the "if parsed_data:" branch of the handler.
EverbeeFormUpdate(state, parsed_data) ==
    LET kept(field, key) == Get(parsed_data, key, state[field])
        sales_30d_str == Get(parsed_data, "last_30_days_sales", None)
        eb_notes == Get(parsed_data, "notes", <<>>)
        existing_notes == state["opp_form_notes"]
    IN  [state EXCEPT
            !["opp_form_product_title"] = kept("opp_form_product_title", "product_title"),
            !["opp_form_shop_name"] = kept("opp_form_shop_name", "shop_name"),
            !["opp_form_est_sales_str"] = Str(Get(parsed_data, "monthly_sales", <<>>)),
            !["opp_form_est_revenue_str"] =
                Get(parsed_data, "monthly_revenue_str_display",
                    Str(Get(parsed_data, "monthly_revenue", <<>>))),
            !["opp_form_total_sales_str"] = Str(Get(parsed_data, "total_sales", <<>>)),
            !["opp_form_views_str"] = Str(Get(parsed_data, "views", <<>>)),
            !["opp_form_favorites_str"] = Str(Get(parsed_data, "favorites", <<>>)),
            !["opp_form_conversion_rate"] = kept("opp_form_conversion_rate", "conversion_rate"),
            !["opp_form_listing_age"] = kept("opp_form_listing_age", "listing_age"),
            !["opp_form_shop_age_overall"] = kept("opp_form_shop_age_overall", "shop_age_overall"),
            !["opp_form_category"] = kept("opp_form_category", "category"),
            !["opp_form_listing_type"] = kept("opp_form_listing_type", "listing_type"),
            !["tags_list"] = Get(parsed_data, "tags_list", <<>>),
            !["opp_form_last_30_days_sales_str"] = Get(parsed_data, "last_30_days_sales", <<>>),
            !["opp_form_last_30_days_revenue_str"] =
                IF state["etsy_price_float"] # None /\ sales_30d_str \notin {None, <<>>}
                THEN Last30DaysRevenue(state["etsy_price_float"], sales_30d_str)
                ELSE <<>>,
            !["opp_form_notes"] =
                Strip(IF eb_notes # <<>> /\ ~Contains(existing_notes, <<"-","-","-"," ","E","v","e","r","b","e","e">>)
                      THEN existing_notes \o <<"\n", "\n">> \o eb_notes
                      ELSE existing_notes)]

(***************************************************************************)
(* Pasted Everbee pages the model parses                                   *)
(***************************************************************************)
\* The most table records a pasted page holds.
MaxRecords == 2

\* The Mo. Revenue strings of the records: all pass the money pattern, the
\* last is no number.
RevenueStrings ==
    { <<"$","0">>, <<"$","9",".","5">>, <<"$","1",",","0","0","0">>, <<"$","1",".","2",".","3">> }

\* The 17 lines of the k-th record of a page, with the given Mo. Revenue and
\* Listing Type lines.
RecordLines(k, revenue, listing_type) ==
    LET d == IntToDigits(k)
        letter == <<<<"A">>, <<"B">>, <<"C">>, <<"D">>, <<"E">>>>[k]
    IN  << <<"M","u","g"," ">> \o letter,
           <<"S","h","o","p">> \o letter,
           <<"$", "9", ".", "9">> \o d,
           <<"1", ",", "0", "0">> \o d,
           revenue,
           <<"0", "5">> \o d,
           d,
           d \o <<" ", "M", "o", ".">>,
           d \o <<"0">>,
           d \o <<"7">>,
           <<"1">> \o d \o <<"0">>,
           <<"H","o","m","e">>,
           d \o <<" ", "m", "o", "n", "t", "h", "s">>,
           d \o <<"0", "%">>,
           <<"1", ".">> \o d \o <<"%">>,
           <<"9">> \o d,
           listing_type >>

\* The tables of n records: each record has one of the revenue strings, or is
\* damaged (its last line is no listing type).
RECURSIVE Tables(_)
Tables(n) ==
    IF n = 0 THEN {<<>>}
    ELSE LET good == {RecordLines(n, r, <<"P","h","y","s","i","c","a","l">>) : r \in RevenueStrings}
             damaged == {RecordLines(n, <<"$","9",".","5">>, <<"O","t","h","e","r">>)}
         IN  {t \o rec : t \in Tables(n - 1), rec \in good \cup damaged}

\* n lines of text that is neither marker nor record.
Filler(n) == [k \in 1..n |-> <<"x">> \o IntToDigits(k)]

\* What a page holds before its table: the toolbar and the header row; 27
\* lines without a marker (pasted with one escaped line break and one blank
\* line); nothing; a toolbar whose header row comes too late; 20 lines
\* without a marker; the toolbar, the header row and a line that is no
\* record.
EverbeeHeads ==
    { << <<"C","u","s","t","o","m","i","z","e"," ","b","u","t","t","o","n"," ","i","n"," ","T","o","o","l","b","a","r">>, <<"P","r","o","d","u","c","t","\t","S","h","o","p"," ","N","a","m","e","\t","P","r","i","c","e","\t","M","o","."," ","S","a","l","e","s">> >>,
      Filler(12) \o << <<"a", "\\", "n", "b">>, <<" ">> >> \o Filler(13),
      <<>>,
      << <<"C","u","s","t","o","m","i","z","e"," ","b","u","t","t","o","n"," ","i","n"," ","T","o","o","l","b","a","r">> >> \o Filler(4) \o << <<"P","r","o","d","u","c","t","\t","S","h","o","p"," ","N","a","m","e","\t","P","r","i","c","e","\t","M","o","."," ","S","a","l","e","s">> >>,
      Filler(20),
      << <<"C","u","s","t","o","m","i","z","e"," ","b","u","t","t","o","n"," ","i","n"," ","T","o","o","l","b","a","r">>, <<"P","r","o","d","u","c","t","\t","S","h","o","p"," ","N","a","m","e","\t","P","r","i","c","e","\t","M","o","."," ","S","a","l","e","s">> >> \o Filler(1) }

\* What a page holds after its table: nothing; the pager, the trends section
\* and a tag block cut short; the tags section and the details, which name
\* the listing type twice.
EverbeeTails ==
    { <<>>,
      << <<"S","h","o","w","i","n","g",":"," ","1"," ","o","f"," ","5">>,
       <<"T","r","e","n","d","s">>,
       <<"S","a","l","e","s">>,
       <<"1","2">>,
       <<"R","e","v","e","n","u","e">>,
       <<"K","e","y","w","o","r","d"," ","S","c","o","r","e">>,
       <<"c","u","p">>,
       <<"5","0">> >>,
      << <<"T","a","g","s">>,
       <<"V","o","l","u","m","e">>,
       <<"C","o","m","p","e","t","i","t","i","o","n">>,
       <<"m","u","g"," ","g","i","f","t">>,
       <<"1",",","2","0","0">>,
       <<"3","0","0">>,
       <<"H","i","g","h">>,
       <<"4",".","5">>,
       <<"7","7">>,
       <<"c","u","p">>,
       <<"5","0">>,
       <<"7">>,
       <<"3",".","1">>,
       <<"z","z","z">>,
       <<"M","o","r","e"," ","D","e","t","a","i","l","s">>,
       <<"L","i","s","t","i","n","g"," ","T","y","p","e">>,
       <<"D","i","g","i","t","a","l">>,
       <<"L","i","s","t","i","n","g"," ","T","y","p","e">>,
       <<"P","h","y","s","i","c","a","l">>,
       <<"W","h","o"," ","M","a","d","e">>,
       <<"I"," ","d","i","d">>,
       <<"i","t"," ","5">> >> }

\* The pasted texts: the pages, the empty text and a text of one blank line.
EverbeeInputs ==
    {h \o t \o e : h \in EverbeeHeads,
                   t \in UNION {Tables(n) : n \in 0..MaxRecords},
                   e \in EverbeeTails}
        \cup {<<>>, << <<" ">> >>}

\* The form before the button is pressed: filled in from an earlier page.
EverbeeSessions ==
    { [init_session_state EXCEPT
          !["opp_form_product_title"] = <<"O","l","d">>,
          !["opp_form_price_str"] = <<"$", "2", "5", ".", "5", "0">>,
          !["etsy_price_float"] = <<2550, 2>>,
          !["opp_form_est_sales_str"] = <<"7">>,
          !["opp_form_listing_type"] = <<"D","i","g","i","t","a","l">>,
          !["opp_form_notes"] = <<"s","e","e","n">>] }

(***************************************************************************)
(* The 'Parse Everbee Text' button and parse_everbee_text_content as a     *)
(* state machine                                                           *)
(***************************************************************************)
\* The button is pressed on a pasted text.
EverbeeInit ==
    /\ raw \in EverbeeInputs
    /\ session \in EverbeeSessions
    /\ pc = "everbee_button"
    /\ everbee = NoEverbee
    /\ today = NoDate
    /\ erank = NoErank
    /\ etsy = NoEtsy
    /\ delivery = NoDelivery
    /\ calls = NoCalls
    /\ db = NoDb

\* "if st.session_state.pasted_everbee_text:" fails: nothing is parsed.
EverbeeButtonNoText ==
    /\ pc = "everbee_button"
    /\ raw = <<>>
    /\ everbee' = [everbee EXCEPT !.message = "Please paste Everbee text."]
    /\ pc' = "everbee_done"
    /\ UNCHANGED session
    /\ UNCHANGED EverbeeFrame

\* The parser finds no line with content and returns None.
EverbeeNoContent ==
    /\ pc = "everbee_button"
    /\ raw # <<>>
    /\ EverbeeLines(raw) = <<>>
    /\ everbee' = [everbee EXCEPT !.returned = "None"]
    /\ pc' = "everbee_return"
    /\ UNCHANGED session
    /\ UNCHANGED EverbeeFrame

\* Step 1: the lines and the table boundaries.
EverbeeBoundaries ==
    /\ pc = "everbee_button"
    /\ raw # <<>>
    /\ EverbeeLines(raw) # <<>>
    /\ LET lines == EverbeeLines(raw)
           start == TableStartIndex(lines)
       IN  everbee' = [everbee EXCEPT
                !.lines = lines,
                !.table_start_index = start,
                !.table_end_index = TableEndIndex(lines, start),
                !.i = start,
                !.parsed_data = EmptyDict]
    /\ pc' = "everbee_table"
    /\ UNCHANGED session
    /\ UNCHANGED EverbeeFrame

\* Steps 2 and 3: the 17 lines at the cursor match their patterns.
EverbeeChunkAccept ==
    /\ pc = "everbee_table"
    /\ everbee.i < everbee.table_end_index
    /\ ~TableTooShort(everbee.i, everbee.table_end_index)
    /\ AllFieldsFound(everbee.lines, everbee.i)
    /\ everbee' = [everbee EXCEPT
            !.all_listings_data = Append(@, parsed_chunk_data(everbee.lines, everbee.i)),
            !.i = @ + num_expected_fields]
    /\ UNCHANGED <<pc, session>>
    /\ UNCHANGED EverbeeFrame

\* One of the 17 lines does not match: the cursor moves on by one line.
EverbeeChunkReject ==
    /\ pc = "everbee_table"
    /\ everbee.i < everbee.table_end_index
    /\ ~TableTooShort(everbee.i, everbee.table_end_index)
    /\ ~AllFieldsFound(everbee.lines, everbee.i)
    /\ everbee' = [everbee EXCEPT !.i = @ + 1]
    /\ UNCHANGED <<pc, session>>
    /\ UNCHANGED EverbeeFrame

\* The loop ends: the cursor is at the table end, or too few lines are left.
EverbeeChunkExit ==
    /\ pc = "everbee_table"
    /\ \/ ~(everbee.i < everbee.table_end_index)
       \/ TableTooShort(everbee.i, everbee.table_end_index)
    /\ pc' = "everbee_select"
    /\ UNCHANGED <<everbee, session>>
    /\ UNCHANGED EverbeeFrame

\* Steps 4 and 5: parsed_data is filled from the highest revenue listing.
EverbeeSelect ==
    /\ pc = "everbee_select"
    /\ everbee' = [everbee EXCEPT !.parsed_data = SelectParsedData(everbee.all_listings_data)]
    /\ pc' = "everbee_trends"
    /\ UNCHANGED session
    /\ UNCHANGED EverbeeFrame

\* The trends section, then the boundaries of the tag block.
EverbeeTrends ==
    /\ pc = "everbee_trends"
    /\ everbee' = [everbee EXCEPT
            !.parsed_data = IF Last30DaysSales(everbee.lines) # None
                            THEN Put(@, "last_30_days_sales", Last30DaysSales(everbee.lines))
                            ELSE @,
            !.tag_block_lines = TagBlockLines(everbee.lines),
            !.details_marker_index = DetailsMarkerIndex(everbee.lines),
            !.i = 0]
    /\ pc' = "everbee_tags"
    /\ UNCHANGED session
    /\ UNCHANGED EverbeeFrame

\* The tag loop: a tag is complete at the cursor.
EverbeeTagEmit ==
    /\ pc = "everbee_tags"
    /\ everbee.i < Len(everbee.tag_block_lines)
    /\ TagStep(everbee.tag_block_lines, everbee.i).kind = "emit"
    /\ everbee' = [everbee EXCEPT
            !.tags_list = Append(@, TagStep(everbee.tag_block_lines, everbee.i).tag),
            !.i = @ + TagStep(everbee.tag_block_lines, everbee.i).lines_consumed]
    /\ UNCHANGED <<pc, session>>
    /\ UNCHANGED EverbeeFrame

\* The tag loop: no tag starts at the cursor.
EverbeeTagSkip ==
    /\ pc = "everbee_tags"
    /\ everbee.i < Len(everbee.tag_block_lines)
    /\ TagStep(everbee.tag_block_lines, everbee.i).kind = "skip"
    /\ everbee' = [everbee EXCEPT !.i = @ + 1]
    /\ UNCHANGED <<pc, session>>
    /\ UNCHANGED EverbeeFrame

\* The tag loop ends, at the end of the block or of the lines of a tag;
\* tags_list is assigned if there is a tag.
EverbeeTagsExit ==
    /\ pc = "everbee_tags"
    /\ IF everbee.i < Len(everbee.tag_block_lines)
       THEN TagStep(everbee.tag_block_lines, everbee.i).kind = "break"
       ELSE TRUE
    /\ everbee' = [everbee EXCEPT
            !.parsed_data = IF everbee.tags_list # <<>>
                            THEN Put(@, "tags_list", everbee.tags_list) ELSE @]
    /\ pc' = "everbee_details"
    /\ UNCHANGED session
    /\ UNCHANGED EverbeeFrame

\* The More Details section and the notes; the function returns parsed_data.
EverbeeDetails ==
    /\ pc = "everbee_details"
    /\ everbee' = [everbee EXCEPT
            !.parsed_data = ParseDetails(everbee.lines, @, everbee.details_marker_index),
            !.returned = "dict"]
    /\ pc' = "everbee_return"
    /\ UNCHANGED session
    /\ UNCHANGED EverbeeFrame

\* "if parsed_data:" a dict with a key is true, None and {} are not.
ParsedDataTruthy == everbee.returned = "dict" /\ DOMAIN everbee.parsed_data # {}

\* The handler updates the form fields.
EverbeeButtonUpdate ==
    /\ pc = "everbee_return"
    /\ ParsedDataTruthy
    /\ session' = EverbeeFormUpdate(session, everbee.parsed_data)
    /\ everbee' = [everbee EXCEPT !.message = "Everbee text parsed and form fields updated!"]
    /\ pc' = "everbee_done"
    /\ UNCHANGED EverbeeFrame

\* The handler reports the failure and leaves the form alone.
EverbeeButtonFailed ==
    /\ pc = "everbee_return"
    /\ ~ParsedDataTruthy
    /\ everbee' = [everbee EXCEPT !.message = "Everbee parsing failed."]
    /\ pc' = "everbee_done"
    /\ UNCHANGED session
    /\ UNCHANGED EverbeeFrame

EverbeeNext ==
    \/ EverbeeButtonNoText
    \/ EverbeeNoContent
    \/ EverbeeBoundaries
    \/ EverbeeChunkAccept
    \/ EverbeeChunkReject
    \/ EverbeeChunkExit
    \/ EverbeeSelect
    \/ EverbeeTrends
    \/ EverbeeTagEmit
    \/ EverbeeTagSkip
    \/ EverbeeTagsExit
    \/ EverbeeDetails
    \/ EverbeeButtonUpdate
    \/ EverbeeButtonFailed

SpecEverbee == EverbeeInit /\ [][EverbeeNext]_vars

(***************************************************************************)
(* Claims about parse_everbee_text_content                                 *)
(***************************************************************************)
\* The parser has returned its mapping.
EverbeeReturned == everbee.returned = "dict"

\* The k-th decoded candidate has a revenue number.
HasRevenue(k) == everbee.all_listings_data[k]["Mo. Revenue Num"] # <<>>

\* Candidate b has the highest revenue number and is the first to have it.
FirstOfHighest(b) ==
    LET revenue(k) == everbee.all_listings_data[k]["Mo. Revenue Num"]
    IN  /\ HasRevenue(b)
        /\ \A k \in DOMAIN everbee.all_listings_data :
              HasRevenue(k) =>
                  /\ ~FloatGreater(revenue(k), revenue(b))
                  /\ (k < b => FloatGreater(revenue(b), revenue(k)))

\* Every table field of the mapping is the value of candidate b's column:
\* the line of the table as it stands, as a number for the count columns.
BuiltFrom(b) ==
    \A r \in DOMAIN select_assignment_map :
        LET column == select_assignment_map[r][1]
            target == select_assignment_map[r][2]
            line == everbee.all_listings_data[b][column]
        IN  /\ target \in DOMAIN everbee.parsed_data
            /\ everbee.parsed_data[target] =
                   IF select_assignment_map[r][3]
                   THEN IntToDigits(DigitsToInt(SelectSeq(line, LAMBDA c : c \in Digit)))
                   ELSE line

\* C4: when two or more candidate records are decoded (and one has a revenue
\* number), the returned mapping is built from the candidate with the highest
\* Mo. Revenue, the first of them on a tie, and from no other candidate.
C4_HighestRevenueFirstOnTie ==
    (/\ EverbeeReturned
     /\ Len(everbee.all_listings_data) >= 2
     /\ \E k \in DOMAIN everbee.all_listings_data : HasRevenue(k))
        => \E b \in DOMAIN everbee.all_listings_data :
              /\ FirstOfHighest(b)
              /\ BuiltFrom(b)
              /\ \A k \in DOMAIN everbee.all_listings_data \ {b} : ~BuiltFrom(k)

\* Two candidates tie for the highest revenue, a More Details section names
\* another listing type, and the mapping is the first candidate's.
C4_Witness ==
    /\ EverbeeReturned
    /\ Len(everbee.all_listings_data) = 2
    /\ HasRevenue(1)
    /\ everbee.all_listings_data[1]["Mo. Revenue Num"] = everbee.all_listings_data[2]["Mo. Revenue Num"]
    /\ everbee.details_marker_index # -1
    /\ BuiltFrom(1)

\* No decoded candidate has a revenue number.
NoUsableRevenue ==
    /\ everbee.all_listings_data # <<>>
    /\ \A k \in DOMAIN everbee.all_listings_data : ~HasRevenue(k)

\* C5 as stated: when candidates are decoded but none has a usable revenue
\* number, the mapping is populated from the first candidate.
C5_AsStated == (EverbeeReturned /\ NoUsableRevenue) => BuiltFrom(1)

\* C5 as amended: when candidates are decoded but none has a usable revenue
\* number, no candidate is selected and the mapping holds no table field;
\* only listing_type can be present, and then it is the value the More
\* Details section gives.
C5_NoCandidateSelected ==
    (EverbeeReturned /\ NoUsableRevenue) =>
        \A r \in DOMAIN select_assignment_map :
            LET target == select_assignment_map[r][2]
            IN  target \in DOMAIN everbee.parsed_data =>
                    /\ target = "listing_type"
                    /\ everbee.parsed_data[target] =
                           ParseDetails(everbee.lines, EmptyDict,
                                        everbee.details_marker_index)["listing_type"]

\* Two candidates are decoded, neither with a revenue number, and the parser
\* has returned.
C5_Witness ==
    /\ EverbeeReturned
    /\ NoUsableRevenue
    /\ Len(everbee.all_listings_data) = 2
    /\ "product_title" \notin DOMAIN everbee.parsed_data

\* The handler is done with a text that has lines, of which the table loop
\* accepted no chunk.
NoChunkAccepted ==
    /\ pc = "everbee_done"
    /\ everbee.lines # <<>>
    /\ everbee.all_listings_data = <<>>

\* C6 as stated: when a non-empty input yields no accepted record chunk, the
\* parser returns None, the handler reports 'Everbee parsing failed.' and no
\* form field is updated.
C6_AsStated ==
    NoChunkAccepted =>
        /\ everbee.returned = "None"
        /\ everbee.message = "Everbee parsing failed."
        /\ session \in EverbeeSessions

\* No header row follows a toolbar button line: there is no start marker.
NoStartMarker == EverbeeReturned /\ HeaderLineIndex(everbee.lines) = -1

\* The 17 lines from line c on are a well-formed record inside the lines
\* up to index last.
RecordAt(c, last) ==
    /\ c + num_expected_fields <= last
    /\ AllFieldsFound(everbee.lines, c)

IsDate(d) ==
    LET leap == d.year % 4 = 0 /\ (d.year % 100 # 0 \/ d.year % 400 = 0)
        days_in_month == <<31, IF leap THEN 29 ELSE 28, 31, 30, 31, 30, 31, 31, 30, 31, 30, 31>>
    IN  /\ d.month \in 1..12
        /\ d.day \in 1..days_in_month[d.month]

\* date.toordinal(): the days from 0001-01-01 on, the first being 1.
Ordinal(d) ==
    LET leap == d.year % 4 = 0 /\ (d.year % 100 # 0 \/ d.year % 400 = 0)
        days_before_month == <<0, 31, 59, 90, 120, 151, 181, 212, 243, 273, 304, 334>>
        y == d.year - 1
    IN  365 * y + (y \div 4) - (y \div 100) + (y \div 400)
            + days_before_month[d.month] + (IF leap /\ d.month > 2 THEN 1 ELSE 0) + d.day

\* datetime.strptime(f"{day} {month} {year}", '%d %b %Y').date() for a day of
\* one or two digits and a month of three letters; NoDate stands for the
\* ValueError.
strptime(day, month, year) ==
    LET months == <<<<"j","a","n">>, <<"f","e","b">>, <<"m","a","r">>, <<"a","p","r">>, <<"m","a","y">>, <<"j","u","n">>,
                    <<"j","u","l">>, <<"a","u","g">>, <<"s","e","p">>, <<"o","c","t">>, <<"n","o","v">>, <<"d","e","c">>>>
        hits == {k \in DOMAIN months : months[k] = Lower(month)}
        d == [year |-> year, month |-> CHOOSE k \in hits : TRUE, day |-> DigitsToInt(day)]
    IN  IF hits # {} /\ IsDate(d) THEN d ELSE NoDate

\* re.search(r'(\d{1,2})(?:-(\d{1,2}))?\s+([A-Za-z]{3})', date_str): the
\* groups of the leftmost match, the longer alternatives first; no group is
\* set when nothing matches.
DateSearch(date_str) ==
    LET n == Len(date_str)
        digits(a, len) == a + len - 1 <= n /\ \A k \in a..(a + len - 1) : date_str[k] \in Digit
        \* where the month starts if whitespace and three letters follow at p
        months(p) == {q \in (p + 1)..(n - 2) :
                         /\ \A k \in p..(q - 1) : date_str[k] \in Space
                         /\ \A k \in q..(q + 2) : date_str[k] \in Alpha}
        matches == {m \in (1..n) \X (1..2) \X (0..2) :
                       /\ digits(m[1], m[2])
                       /\ m[3] > 0 => /\ m[1] + m[2] <= n
                                      /\ date_str[m[1] + m[2]] = "-"
                                      /\ digits(m[1] + m[2] + 1, m[3])
                       /\ months(m[1] + m[2] + (IF m[3] > 0 THEN m[3] + 1 ELSE 0)) # {}}
        rank(m) == 100 * m[1] + 10 * (2 - m[2]) + (2 - m[3])
        best == CHOOSE m \in matches : \A o \in matches : rank(m) <= rank(o)
        after == best[1] + best[2] + (IF best[3] > 0 THEN best[3] + 1 ELSE 0)
        q == CHOOSE x \in months(after) : TRUE
    IN  IF matches = {} THEN [start_day |-> None, end_day |-> None, month |-> None]
        ELSE [start_day |-> SubSeq(date_str, best[1], best[1] + best[2] - 1),
              end_day |-> IF best[3] = 0 THEN None
                          ELSE SubSeq(date_str, best[1] + best[2] + 1, best[1] + best[2] + best[3]),
              month |-> SubSeq(date_str, q, q + 2)]

\* A variant of parse_date_with_year that keeps the current year for a day
\* that lies before today.
parse_date_with_year_NoRoll(day, month, now) == strptime(day, month, now.year)

\* parse_date_with_year: the day in the current year, in the next year when
\* that lies before today; NoDate for None.
parse_date_with_year(day, month, now) ==
    LET dt == strptime(day, month, now.year)
    IN  IF dt = NoDate THEN NoDate
        ELSE IF Ordinal(dt) < Ordinal(now) THEN strptime(day, month, now.year + 1)
        ELSE dt

\* Lines 71-110 for the groups of a match: the string calculate_days_until_delivery
\* returns, or the ValueError of the strptime call that no try guards.
DeliveryDays(found, date_str, now) ==
    LET start_date == parse_date_with_year(found.start_day, found.month, now)
        delta_start == Ordinal(start_date) - Ordinal(now)
        end_first == parse_date_with_year(found.end_day, found.month, now)
        rolls == Ordinal(end_first) < Ordinal(start_date)
        end_date == IF rolls THEN strptime(found.end_day, found.month, start_date.year + 1)
                    ELSE end_first
        delta_end == Ordinal(end_date) - Ordinal(now)
        returns(value) == [raised |-> FALSE, value |-> value]
        days == <<" ", "d", "a", "y", "s">>
    IN  IF found.start_day = None THEN returns(date_str)
        ELSE IF start_date = NoDate THEN returns(date_str)
        ELSE IF found.end_day = None
             THEN (IF delta_start >= 0 THEN returns(IntToDigits(delta_start) \o days)
                   ELSE returns(date_str))
        ELSE IF end_first = NoDate THEN returns(date_str)
        ELSE IF end_date = NoDate THEN [raised |-> TRUE, value |-> <<>>]
        ELSE IF delta_start >= 0 /\ delta_end >= 0
             THEN returns(IntToDigits(delta_start) \o <<"-">> \o IntToDigits(delta_end) \o days)
        ELSE returns(date_str)

\* calculate_days_until_delivery(date_str) on the day now.
calculate_days_until_delivery(date_str, now) ==
    IF date_str = <<>> THEN [raised |-> FALSE, value |-> <<>>]
    ELSE DeliveryDays(DateSearch(date_str), date_str, now)

\* ---------------------------------------------------------------------
\* Etsy product page: parse_etsy_html_content
\* ---------------------------------------------------------------------

\* str(float(text)) for an unsigned decimal literal (digits, at most one dot,
\* at least one digit) of fewer than sixteen digits; None stands for the
\* ValueError of float().  The pages of this model hold no signed, exponent,
\* inf or nan spellings.
FloatStr(text) ==
    LET dot == Find(text, <<".">>, 0)
        whole == IF dot = -1 THEN text ELSE Slice(text, 0, dot)
        frac == IF dot = -1 THEN <<>> ELSE Slice(text, dot + 1, Len(text))
        RECURSIVE lead(_), trail(_)
        lead(w) == IF Len(w) > 1 /\ w[1] = "0" THEN lead(Tail(w)) ELSE w
        trail(f) == IF Len(f) > 1 /\ f[Len(f)] = "0" THEN trail(SubSeq(f, 1, Len(f) - 1)) ELSE f
    IN  IF AllIn(whole, Digit) /\ AllIn(frac, Digit) /\ Len(whole) + Len(frac) > 0
        THEN lead(IF whole = <<>> THEN <<"0">> ELSE whole) \o <<".">>
                 \o trail(IF frac = <<>> THEN <<"0">> ELSE frac)
        ELSE None

\* What dict.get hands back for a key of the decoded JSON object, as Python
\* renders it with str(): a JSON string is itself, a JSON number is printed
\* from its value (25.00 prints as 25.0, an integer prints its digits).
PyStr(value) ==
    IF value.t = "num" /\ Contains(value.v, <<".">>) THEN FloatStr(value.v) ELSE value.v

\* clean_etsy_url for a string url without ';': scheme, host and path only.
clean_etsy_url(url) ==
    LET http == <<"h", "t", "t", "p", ":", "/", "/">>
        https == <<"h", "t", "t", "p", "s", ":", "/", "/">>
        full == IF StartsWith(url, http) \/ StartsWith(url, https) THEN url ELSE https \o url
        query == Find(full, <<"?">>, 0)
        fragment == Find(full, <<"#">>, 0)
        cut == IF fragment # -1 /\ fragment < query THEN fragment ELSE query
        cleaned == Slice(full, 0, cut)
    IN  IF url = None \/ url = <<>> \/ ~Contains(url, <<"?">>) THEN url
        ELSE IF Len(cleaned) > 0 /\ cleaned[Len(cleaned)] = "/"
             THEN SubSeq(cleaned, 1, Len(cleaned) - 1)
        ELSE cleaned

\* text.split(sep)[-1], and re.split(sep, text, flags=re.IGNORECASE)[-1] when
\* fold: what follows the last of the separators found from left to right.
RECURSIVE SplitLast(_, _, _)
SplitLast(text, sep, fold) ==
    LET at == Find(IF fold THEN Lower(text) ELSE text, sep, 0)
    IN  IF at = -1 THEN text ELSE SplitLast(Slice(text, at + Len(sep), Len(text)), sep, fold)

\* re.sub(r'^[^\w\d]+|[^\w\d]+$', '', text).strip()
TrimNonWord(text) ==
    LET word == Alpha \cup Digit \cup {"_"}
        inside == {k \in DOMAIN text : text[k] \in word}
        first == CHOOSE k \in inside : \A o \in inside : k <= o
        last == CHOOSE k \in inside : \A o \in inside : k >= o
    IN  IF inside = {} THEN <<>> ELSE SubSeq(text, first, last)

\* 'get it by' in text.lower() or 'arrives by' in text.lower()
HasArrivalPhrase(text) ==
    \/ Contains(Lower(text), <<"g", "e", "t", " ", "i", "t", " ", "b", "y">>)
    \/ Contains(Lower(text), <<"a", "r", "r", "i", "v", "e", "s", " ", "b", "y">>)

\* re.search(r'[\£\$](\d+\.?\d*)', full_text) and str(float(group 1)); the
\* empty string when nothing matches.
CostOf(full_text) ==
    LET n == Len(full_text)
        starts == {k \in 1..(n - 1) : full_text[k] \in {"(pound)", "$"} /\ full_text[k + 1] \in Digit}
        at == (CHOOSE k \in starts : \A o \in starts : k <= o) + 1
        RECURSIVE run(_)
        \* the index after the digits that begin at k
        run(k) == IF k <= n /\ full_text[k] \in Digit THEN run(k + 1) ELSE k
        dot == run(at)
        stop == IF dot <= n /\ full_text[dot] = "." THEN run(dot + 1) ELSE dot
    IN  IF starts = {} THEN <<>> ELSE FloatStr(SubSeq(full_text, at, stop - 1))

\* datetime.strptime(date_text, '%d %b, %Y').strftime('%Y-%m-%d') for a year
\* of four digits not below 1000; None stands for the ValueError.
ReviewDate(date_text) ==
    LET n == Len(date_text)
        RECURSIVE digits(_), blanks(_)
        digits(k) == IF k <= n /\ date_text[k] \in Digit THEN digits(k + 1) ELSE k
        blanks(k) == IF k <= n /\ date_text[k] \in Space THEN blanks(k + 1) ELSE k
        month == blanks(digits(1))
        year == blanks(month + 4)
        shaped == /\ digits(1) \in {2, 3}
                  /\ month > digits(1)
                  /\ month + 3 <= n
                  /\ date_text[month + 3] = ","
                  /\ year > month + 4
                  /\ year + 3 = n
                  /\ digits(year) = n + 1
        dt == strptime(SubSeq(date_text, 1, digits(1) - 1), SubSeq(date_text, month, month + 2),
                       DigitsToInt(SubSeq(date_text, year, n)))
        two(v) == IF v < 10 THEN <<"0">> \o IntToDigits(v) ELSE IntToDigits(v)
    IN  IF ~shaped THEN None
        ELSE IF dt = NoDate THEN None
        ELSE IntToDigits(dt.year) \o <<"-">> \o two(dt.month) \o <<"-">> \o two(dt.day)

\* The mapping of lines 117-127.
NewData ==
    [product_url |-> None, product_title |-> None, price_str |-> None, shop_name |-> None,
     shop_url |-> None, description_notes |-> None, review_dates_str |-> None,
     processing_time |-> None, shipping_cost_str |-> None]

\* not value, for None and strings
Falsy(value) == value = None \/ value = <<>>

\* How lines 130-168 end for the first application/ld+json script of the
\* page: "product" when its Product record is read, "skipped" without a script
\* or with another @type, "error" when an exception is caught before anything
\* is assigned (text that is not JSON, a JSON list, a url that is not a
\* string), "partial" when the join of line 163 raises on a datePublished that
\* is not a string, after lines 136-153 have assigned.
JsonLdOutcome(soup) ==
    LET json_ld_script == soup.scripts[1]
    IN  IF soup.scripts = <<>> THEN "skipped"
        ELSE IF json_ld_script.kind # "object" THEN "error"
        ELSE IF json_ld_script.type # <<"P", "r", "o", "d", "u", "c", "t">> THEN "skipped"
        ELSE IF json_ld_script.url.t = "num" THEN "error"
        ELSE IF \E k \in DOMAIN json_ld_script.review : json_ld_script.review[k].t = "num" THEN "partial"
        ELSE "product"

\* Lines 136-163 on the decoded Product record; review_dates_str stays as it
\* was when the join raises.
JsonLdData(data, structured_data) ==
    LET offers == structured_data.offers
        brand == structured_data.brand
        quoted == IF offers.type = <<"A", "g", "g", "r", "e", "g", "a", "t", "e", "O", "f", "f", "e", "r">> THEN offers.lowPrice ELSE offers.price
    IN  [data EXCEPT
            !.product_url = clean_etsy_url(structured_data.url.v),
            !.product_title = structured_data.name.v,
            !.price_str = IF offers.t = "obj" /\ quoted.t # "absent" THEN PyStr(quoted) ELSE None,
            !.shop_name = IF brand.t = "obj" THEN brand.name.v ELSE None,
            !.description_notes = structured_data.description.v,
            !.review_dates_str =
                IF \E k \in DOMAIN structured_data.review : structured_data.review[k].t = "num" THEN @
                ELSE Join([k \in DOMAIN structured_data.review |-> structured_data.review[k].v], <<",", " ">>)]

\* price_text.split()[0]; the empty string stands for the IndexError.
FirstToken(text) ==
    LET RECURSIVE skip(_), take(_)
        skip(k) == IF k <= Len(text) /\ text[k] \in Space THEN skip(k + 1) ELSE k
        take(k) == IF k <= Len(text) /\ text[k] \notin Space THEN take(k + 1) ELSE k
    IN  SubSeq(text, skip(1), take(skip(1)) - 1)

\* A variant of the markup probes that takes the title from the h1 element
\* whether or not a title is set.
MarkupFallback_TitleFromH1(data, soup) ==
    [data EXCEPT !.product_title = IF soup.h1 # None THEN Strip(soup.h1) ELSE @]

\* Lines 172-230: the markup probes, each only for a value still unset.
MarkupFallback(data, soup) ==
    LET price_text == SelectSeq(Strip(soup.price_tag), LAMBDA c : c \notin {"(pound)", "$", ",", "+"})
        price == IF FirstToken(price_text) = <<>> THEN None ELSE FloatStr(FirstToken(price_text))
        shop_link_tag == soup.shop_link
        probes_shop == (Falsy(data.shop_name) \/ Falsy(data.shop_url)) /\ shop_link_tag.found
        paragraphs == [k \in DOMAIN soup.description.paragraphs |-> Strip(soup.description.paragraphs[k])]
        months == {<<"J","a","n">>, <<"F","e","b">>, <<"M","a","r">>, <<"A","p","r">>, <<"M","a","y">>, <<"J","u","n">>,
                   <<"J","u","l">>, <<"A","u","g">>, <<"S","e","p">>, <<"O","c","t">>, <<"N","o","v">>, <<"D","e","c">>}
        dated(date_text) == /\ Contains(date_text, <<",">>)
                            /\ \E month \in months : Contains(date_text, month)
                            /\ ReviewDate(date_text) # None
        date_tags == [k \in DOMAIN soup.review_tags |-> Strip(soup.review_tags[k])]
        kept == SelectSeq(date_tags, dated)
        review_dates_html == [k \in DOMAIN kept |-> ReviewDate(kept[k])]
    IN  [data EXCEPT
            !.product_url = IF Falsy(@) /\ ~Falsy(soup.canonical) THEN clean_etsy_url(soup.canonical) ELSE @,
            !.product_title = IF Falsy(@) /\ soup.h1 # None THEN Strip(soup.h1) ELSE @,
            !.price_str = IF Falsy(@) /\ soup.price_tag # None /\ price # None THEN price ELSE @,
            !.shop_name = IF probes_shop /\ Falsy(@) THEN Strip(shop_link_tag.text) ELSE @,
            !.shop_url = IF probes_shop THEN clean_etsy_url(shop_link_tag.href) ELSE @,
            !.description_notes = IF Falsy(@) /\ soup.description.found THEN Join(paragraphs, <<"\n">>) ELSE @,
            !.review_dates_str = IF Falsy(@) /\ review_dates_html # <<>>
                                 THEN Join(review_dates_html, <<",", " ">>) ELSE @]

\* Lines 239-252: the delivery estimate of the first list item that carries
\* data-shipping-estimated-delivery, from its value span or else from its
\* arrival sentence.
DeliveryAttempt(shipping_section, now) ==
    LET items == SelectSeq(shipping_section.children, LAMBDA c : c.tag \in {"li_span", "li_text"})
        edd_li == items[1]
        date_part == Strip(SplitLast(Strip(edd_li.text), <<"b", "y">>, FALSE))
    IN  IF items = <<>> THEN [raised |-> FALSE, value |-> <<>>]
        ELSE IF edd_li.tag = "li_span" THEN calculate_days_until_delivery(Strip(edd_li.text), now)
        ELSE IF HasArrivalPhrase(edd_li.text) THEN calculate_days_until_delivery(date_part, now)
        ELSE [raised |-> FALSE, value |-> <<>>]

\* Line 257-259: the texts of the p, span, div and li elements of the section
\* in document order; a list item with a value span is followed by the span.
PossibleTags(shipping_section) ==
    LET children == shipping_section.children
    IN  Flatten([k \in DOMAIN children |->
                    IF children[k].tag = "li_span"
                    THEN <<Strip(children[k].text), Strip(children[k].text)>>
                    ELSE <<Strip(children[k].text)>>])

\* Line 269 without its test that the calculator changed the text: any
\* non-empty result ends the broader search.
BroadResult_KeepUnchanged(days, date_part) ==
    IF days.raised THEN [raised |-> TRUE, break |-> FALSE, est_delivery_days |-> <<>>]
    ELSE IF days.value # <<>>
         THEN [raised |-> FALSE, break |-> TRUE, est_delivery_days |-> days.value]
    ELSE [raised |-> FALSE, break |-> FALSE, est_delivery_days |-> <<>>]

\* Lines 269-273: the loop breaks on an estimate that differs from the text
\* it was computed from, and resets est_delivery_days otherwise.
BroadResult(days, date_part) ==
    IF days.raised THEN [raised |-> TRUE, break |-> FALSE, est_delivery_days |-> <<>>]
    ELSE IF days.value # <<>> /\ days.value # date_part
         THEN [raised |-> FALSE, break |-> TRUE, est_delivery_days |-> days.value]
    ELSE [raised |-> FALSE, break |-> FALSE, est_delivery_days |-> <<>>]

\* Lines 259-276 for one tag of the loop: whether the call raised, whether the
\* loop breaks, and est_delivery_days afterwards.
BroadStep(tag_text, est_delivery_days, now) ==
    LET date_part == TrimNonWord(Strip(SplitLast(tag_text, <<" ", "b", "y", " ">>, TRUE)))
    IN  IF ~HasArrivalPhrase(tag_text) \/ date_part = <<>>
        THEN [raised |-> FALSE, break |-> FALSE, est_delivery_days |-> est_delivery_days]
        ELSE BroadResult(calculate_days_until_delivery(date_part, now), date_part)

\* Lines 282-312: the cost beside the first "delivery cost:" string, read from
\* its parent's text and then from the string itself, and 0.0 for a free
\* delivery when no cost was found.
ShippingCost(shipping_section) ==
    LET strings == [k \in DOMAIN shipping_section.children |-> shipping_section.children[k].text]
        costs == SelectSeq(strings, LAMBDA t : Contains(Lower(t), <<"d", "e", "l", "i", "v", "e", "r", "y", " ", "c", "o", "s", "t", ":">>))
        cost_element == costs[1]
        from_parent == CostOf(Strip(cost_element))
        found == IF costs = <<>> THEN <<>>
                 ELSE IF from_parent # <<>> THEN from_parent
                 ELSE CostOf(Strip(cost_element))
        free == \E k \in DOMAIN strings :
                    \/ Contains(Lower(strings[k]), <<"f", "r", "e", "e", " ", "d", "e", "l", "i", "v", "e", "r", "y">>)
                    \/ Contains(Lower(strings[k]), <<"f", "r", "e", "e", " ", "s", "h", "i", "p", "p", "i", "n", "g">>)
    IN  IF found # <<>> THEN found
        ELSE IF free THEN <<"0", ".", "0">>
        ELSE <<>>

\* Lines 314-320: the two shipping values stored and every None made "".
Returned(data, est_delivery_days, shipping_cost_str) ==
    LET stored == [data EXCEPT !.processing_time = est_delivery_days,
                               !.shipping_cost_str = shipping_cost_str]
    IN  [key \in DOMAIN stored |-> IF stored[key] = None THEN <<>> ELSE stored[key]]

\* --- Pages ------------------------------------------------------------

\* The most elements a shipping section of the pages holds.
MaxShippingTags == 2

\* Values of the decoded JSON: a key that is absent (dict.get gives None), a
\* string, a number written as in the script.
Absent == [t |-> "absent", v |-> None]

JsonString(v) == [t |-> "str", v |-> v]

JsonNumber(v) == [t |-> "num", v |-> v]

NoOffers == [t |-> "absent", type |-> <<>>, price |-> Absent, lowPrice |-> Absent]

NoBrand == [t |-> "absent", name |-> Absent]

Offer(price) == [t |-> "obj", type |-> <<"O", "f", "f", "e", "r">>, price |-> price, lowPrice |-> Absent]

AggregateOffer(lowPrice) == [t |-> "obj", type |-> <<"A", "g", "g", "r", "e", "g", "a", "t", "e", "O", "f", "f", "e", "r">>, price |-> Absent, lowPrice |-> lowPrice]

Brand(name) == [t |-> "obj", name |-> JsonString(name)]

\* A first script that holds no Product record: text that is not JSON
\* ("malformed"), a JSON list ("list"), an object of another @type.
OtherScript(kind, type) ==
    [kind |-> kind, type |-> type, url |-> Absent, name |-> Absent, offers |-> NoOffers,
     brand |-> NoBrand, description |-> Absent, review |-> <<>>]

Product(url, name, offers, brand, description, review) ==
    [kind |-> "object", type |-> <<"P", "r", "o", "d", "u", "c", "t">>, url |-> url, name |-> name, offers |-> offers,
     brand |-> brand, description |-> description, review |-> review]

ListingUrl == JsonString(<<"w", "w", "w", ".", "e", "t", "s", "y", ".", "c", "o", "m", "/", "l", "i", "s", "t", "i", "n", "g", "/", "1", "/", "m", "u", "g", "?", "r", "e", "f", "=", "x">>)

FullProduct(offers, brand) ==
    Product(ListingUrl, JsonString(<<"M", "u", "g">>), offers, brand, JsonString(<<"A", " ", "m", "u", "g">>),
            <<JsonString(<<"2", "0", "2", "4", "-", "0", "3", "-", "0", "1">>), JsonString(<<"2", "0", "2", "4", "-", "0", "2", "-", "1", "1">>)>>)

\* The application/ld+json scripts of a page, in document order.
EtsyScripts ==
    {<<>>,
     <<OtherScript("malformed", <<>>)>>,
     <<OtherScript("list", <<>>)>>,
     <<OtherScript("object", <<"B", "r", "e", "a", "d", "c", "r", "u", "m", "b", "L", "i", "s", "t">>)>>,
     <<FullProduct(Offer(JsonString(<<"2", "5", ".", "0", "0">>)), Brand(<<"S", "h", "o", "p", "A">>))>>,
     <<FullProduct(Offer(JsonNumber(<<"2", "5">>)), Brand(<<"S", "h", "o", "p", "A">>))>>,
     <<FullProduct(AggregateOffer(JsonNumber(<<"2", "5", ".", "0", "0">>)), Brand(<<"S", "h", "o", "p", "A">>))>>,
     <<FullProduct([Offer(JsonString(<<"2", "5", ".", "0", "0">>)) EXCEPT !.t = "list"], [Brand(<<"S", "h", "o", "p", "A">>) EXCEPT !.t = "str"])>>,
     <<OtherScript("object", <<"B", "r", "e", "a", "d", "c", "r", "u", "m", "b", "L", "i", "s", "t">>), FullProduct(Offer(JsonString(<<"2", "5", ".", "0", "0">>)), Brand(<<"S", "h", "o", "p", "A">>))>>,
     <<Product(JsonNumber(<<"7">>), JsonString(<<"M", "u", "g">>), Offer(JsonString(<<"2", "5", ".", "0", "0">>)), Brand(<<"S", "h", "o", "p", "A">>), Absent, <<>>)>>,
     <<Product(Absent, Absent, Offer(Absent), [t |-> "obj", name |-> Absent], Absent, <<>>)>>,
     <<Product(ListingUrl, JsonString(<<"M", "u", "g">>), Offer(JsonString(<<"2", "5", ".", "0", "0">>)), Brand(<<"S", "h", "o", "p", "A">>), JsonString(<<"A", " ", "m", "u", "g">>),
               <<JsonString(<<"2", "0", "2", "4", "-", "0", "3", "-", "0", "1">>), JsonNumber(<<"2", "0", "2", "4", "0", "2", "1", "1">>)>>)>>}

\* What the probes of lines 172-230 find in the markup.
EtsyMarkups ==
    {[canonical |-> None, h1 |-> None, price_tag |-> None,
      shop_link |-> [found |-> FALSE, text |-> <<>>, href |-> <<>>],
      description |-> [found |-> FALSE, paragraphs |-> <<>>], review_tags |-> <<>>],
     [canonical |-> <<"h", "t", "t", "p", "s", ":", "/", "/", "w", "w", "w", ".", "e", "t", "s", "y", ".", "c", "o", "m", "/", "u", "k", "/", "l", "i", "s", "t", "i", "n", "g", "/", "1", "/", "m", "u", "g", "/", "?", "c", "l", "i", "c", "k", "=", "1">>, h1 |-> <<" ", "B", "l", "u", "e", " ", "M", "u", "g", " ">>,
      price_tag |-> <<"(pound)", "1", ",", "2", "5", "0", ".", "0", "0", "+">>,
      shop_link |-> [found |-> TRUE, text |-> <<"S", "h", "o", "p", "B">>, href |-> <<"h", "t", "t", "p", "s", ":", "/", "/", "w", "w", "w", ".", "e", "t", "s", "y", ".", "c", "o", "m", "/", "s", "h", "o", "p", "/", "S", "h", "o", "p", "B", "?", "r", "e", "f", "=", "l", "2">>],
      description |-> [found |-> TRUE, paragraphs |-> <<<<"L", "i", "n", "e", " ", "o", "n", "e">>, <<" ", "t", "w", "o", " ">>>>],
      review_tags |-> <<<<"1", "2", " ", "M", "a", "r", ",", " ", "2", "0", "2", "4">>, <<"P", "u", "r", "c", "h", "a", "s", "e", "d", " ", "i", "t", "e", "m", ",", " ", "M", "a", "r">>, <<"3", "1", " ", "F", "e", "b", ",", " ", "2", "0", "2", "4">>, <<"5", " ", "M", "a", "y", ",", " ", "2", "0", "2", "3">>>>],
     [canonical |-> <<"h", "t", "t", "p", "s", ":", "/", "/", "w", "w", "w", ".", "e", "t", "s", "y", ".", "c", "o", "m", "/", "l", "i", "s", "t", "i", "n", "g", "/", "1">>, h1 |-> <<" ", " ">>, price_tag |-> <<"S", "o", "l", "d", " ", "o", "u", "t">>,
      shop_link |-> [found |-> TRUE, text |-> <<" ", "S", "h", "o", "p", "C", " ">>, href |-> <<"/", "s", "h", "o", "p", "/", "S", "h", "o", "p", "C">>],
      description |-> [found |-> TRUE, paragraphs |-> <<>>], review_tags |-> <<<<"2", "9", " ", "F", "e", "b", ",", " ", "2", "0", "2", "3">>>>],
     [canonical |-> None, h1 |-> <<"M", "u", "g">>, price_tag |-> <<"$", " ", "+">>,
      shop_link |-> [found |-> FALSE, text |-> <<>>, href |-> <<>>],
      description |-> [found |-> FALSE, paragraphs |-> <<>>], review_tags |-> <<>>]}

\* Elements of the shipping section: a list item with the estimated-delivery
\* attribute and a value span, such an item with text only, a paragraph.
ShippingChildren ==
    {[tag |-> "li_span", text |-> <<"2", "5", "-", "2", "9", " ", "F", "e", "b">>],
     [tag |-> "li_span", text |-> <<"s", "o", "o", "n">>],
     [tag |-> "li_text", text |-> <<"G", "e", "t", " ", "i", "t", " ", "b", "y", " ", "3", "0", " ", "A", "p", "r">>],
     [tag |-> "li_text", text |-> <<"O", "r", "d", "e", "r", " ", "t", "o", "d", "a", "y">>],
     [tag |-> "p", text |-> <<"A", "r", "r", "i", "v", "e", "s", " ", "b", "y", " ", "1", "0", "-", "2", "9", " ", "F", "e", "b", "!">>],
     [tag |-> "p", text |-> <<"A", "r", "r", "i", "v", "e", "s", " ", "b", "y", " ", "p", "o", "s", "t">>],
     [tag |-> "p", text |-> <<"D", "e", "l", "i", "v", "e", "r", "y", " ", "c", "o", "s", "t", ":", " ", "(pound)", "3", ".", "5", "0">>],
     [tag |-> "p", text |-> <<"F", "r", "e", "e", " ", "d", "e", "l", "i", "v", "e", "r", "y">>]}

NoShippingSection == [found |-> FALSE, children |-> <<>>]

ShippingSections ==
    {[found |-> TRUE, children |-> children] :
        children \in UNION {[1..n -> ShippingChildren] : n \in 0..MaxShippingTags}}

Soup(scripts, markup, shipping) ==
    [scripts |-> scripts, canonical |-> markup.canonical, h1 |-> markup.h1,
     price_tag |-> markup.price_tag, shop_link |-> markup.shop_link,
     description |-> markup.description, review_tags |-> markup.review_tags,
     shipping |-> shipping]

\* The pages: every script with every markup, without a shipping section and
\* with one delivery window; every shipping section on a page without a
\* script and on a page with a Product record.
EtsyInputs ==
    {Soup(scripts, markup, shipping) :
        scripts \in EtsyScripts, markup \in EtsyMarkups,
        shipping \in {NoShippingSection,
                      [found |-> TRUE, children |-> <<[tag |-> "li_span", text |-> <<"2", "5", "-", "2", "9", " ", "F", "e", "b">>]>>]}}
    \cup
    {Soup(scripts, markup, shipping) :
        scripts \in {<<>>, <<FullProduct(Offer(JsonString(<<"2", "5", ".", "0", "0">>)), Brand(<<"S", "h", "o", "p", "A">>))>>},
        markup \in {m \in EtsyMarkups : m.h1 = <<" ", "B", "l", "u", "e", " ", "M", "u", "g", " ">>},
        shipping \in ShippingSections}

\* date.today() of the run.
EtsyTodays == {[year |-> 2024, month |-> 2, day |-> 20], [year |-> 2028, month |-> 2, day |-> 26]}

\* --- State machine ----------------------------------------------------

EtsyInit ==
    /\ pc = "etsy_parse"
    /\ raw = <<>>
    /\ today \in EtsyTodays
    /\ erank = NoErank
    /\ everbee = NoEverbee
    /\ session = init_session_state
    /\ delivery = NoDelivery
    /\ calls = NoCalls
    /\ db = NoDb
    /\ \E soup \in EtsyInputs :
          etsy = [soup |-> soup, data |-> NewData, est_delivery_days |-> <<>>,
                  shipping_cost_str |-> <<>>, i |-> 0, returned |-> "pending"]

\* Lines 130-163: the first script holds a Product record.
EtsyJsonLdProduct ==
    /\ pc = "etsy_parse"
    /\ JsonLdOutcome(etsy.soup) = "product"
    /\ etsy' = [etsy EXCEPT !.data = JsonLdData(@, etsy.soup.scripts[1])]
    /\ pc' = "etsy_fallback"
    /\ UNCHANGED <<EtsyFrame, session>>

\* Lines 136-168: the exception of line 163 is caught after the record's url,
\* name, price, brand and description were assigned.
EtsyJsonLdPartial ==
    /\ pc = "etsy_parse"
    /\ JsonLdOutcome(etsy.soup) = "partial"
    /\ etsy' = [etsy EXCEPT !.data = JsonLdData(@, etsy.soup.scripts[1])]
    /\ pc' = "etsy_fallback"
    /\ UNCHANGED <<EtsyFrame, session>>

\* Lines 130-135: no script, or its record is not a Product.
EtsyJsonLdSkipped ==
    /\ pc = "etsy_parse"
    /\ JsonLdOutcome(etsy.soup) = "skipped"
    /\ pc' = "etsy_fallback"
    /\ UNCHANGED <<etsy, EtsyFrame, session>>

\* Lines 165-168: the exception of the JSON-LD step is caught, nothing was
\* assigned.
EtsyJsonLdError ==
    /\ pc = "etsy_parse"
    /\ JsonLdOutcome(etsy.soup) = "error"
    /\ pc' = "etsy_fallback"
    /\ UNCHANGED <<etsy, EtsyFrame, session>>

\* Lines 172-230.
EtsyMarkupFallback ==
    /\ pc = "etsy_fallback"
    /\ etsy' = [etsy EXCEPT !.data = MarkupFallback(@, etsy.soup)]
    /\ pc' = "etsy_shipping"
    /\ UNCHANGED <<EtsyFrame, session>>

\* Line 237: the page has no shipping section.
EtsyNoShippingSection ==
    /\ pc = "etsy_shipping"
    /\ ~etsy.soup.shipping.found
    /\ pc' = "etsy_return"
    /\ UNCHANGED <<etsy, EtsyFrame, session>>

\* Lines 239-252.
EtsyDeliveryAttempt ==
    /\ pc = "etsy_shipping"
    /\ etsy.soup.shipping.found
    /\ \E attempt \in {DeliveryAttempt(etsy.soup.shipping, today)} :
          /\ ~attempt.raised
          /\ etsy' = [etsy EXCEPT !.est_delivery_days = attempt.value]
    /\ pc' = "etsy_broad"
    /\ UNCHANGED <<EtsyFrame, session>>

\* Lines 245 and 252: the ValueError of calculate_days_until_delivery leaves
\* parse_etsy_html_content.
EtsyDeliveryRaised ==
    /\ pc = "etsy_shipping"
    /\ etsy.soup.shipping.found
    /\ DeliveryAttempt(etsy.soup.shipping, today).raised
    /\ etsy' = [etsy EXCEPT !.returned = "ValueError"]
    /\ pc' = "etsy_done"
    /\ UNCHANGED <<EtsyFrame, session>>

\* Line 255: an estimate is there, the broader search is not run.
EtsyBroadSkipped ==
    /\ pc = "etsy_broad"
    /\ etsy.i = 0
    /\ etsy.est_delivery_days # <<>>
    /\ pc' = "etsy_cost"
    /\ UNCHANGED <<etsy, EtsyFrame, session>>

\* Lines 258-276: one tag of the broader search.
EtsyBroadTag ==
    /\ pc = "etsy_broad"
    /\ etsy.i > 0 \/ etsy.est_delivery_days = <<>>
    /\ etsy.i < Len(PossibleTags(etsy.soup.shipping))
    /\ \E step \in {BroadStep(PossibleTags(etsy.soup.shipping)[etsy.i + 1], etsy.est_delivery_days, today)} :
          /\ ~step.raised
          /\ etsy' = [etsy EXCEPT !.est_delivery_days = step.est_delivery_days, !.i = @ + 1]
          /\ pc' = IF step.break THEN "etsy_cost" ELSE "etsy_broad"
    /\ UNCHANGED <<EtsyFrame, session>>

\* Line 268: the ValueError of calculate_days_until_delivery is none of the
\* exceptions line 274 catches.
EtsyBroadRaised ==
    /\ pc = "etsy_broad"
    /\ etsy.i > 0 \/ etsy.est_delivery_days = <<>>
    /\ etsy.i < Len(PossibleTags(etsy.soup.shipping))
    /\ BroadStep(PossibleTags(etsy.soup.shipping)[etsy.i + 1], etsy.est_delivery_days, today).raised
    /\ etsy' = [etsy EXCEPT !.returned = "ValueError"]
    /\ pc' = "etsy_done"
    /\ UNCHANGED <<EtsyFrame, session>>

\* Line 258: the tags are used up.
EtsyBroadExit ==
    /\ pc = "etsy_broad"
    /\ etsy.i > 0 \/ etsy.est_delivery_days = <<>>
    /\ etsy.i = Len(PossibleTags(etsy.soup.shipping))
    /\ pc' = "etsy_cost"
    /\ UNCHANGED <<etsy, EtsyFrame, session>>

\* Lines 282-312.
EtsyShippingCost ==
    /\ pc = "etsy_cost"
    /\ etsy' = [etsy EXCEPT !.shipping_cost_str = ShippingCost(etsy.soup.shipping)]
    /\ pc' = "etsy_return"
    /\ UNCHANGED <<EtsyFrame, session>>

\* Lines 314-322.
EtsyReturn ==
    /\ pc = "etsy_return"
    /\ etsy' = [etsy EXCEPT !.data = Returned(@, etsy.est_delivery_days, etsy.shipping_cost_str),
                            !.returned = "data"]
    /\ pc' = "etsy_done"
    /\ UNCHANGED <<EtsyFrame, session>>

EtsyNext ==
    \/ EtsyJsonLdProduct
    \/ EtsyJsonLdPartial
    \/ EtsyJsonLdSkipped
    \/ EtsyJsonLdError
    \/ EtsyMarkupFallback
    \/ EtsyNoShippingSection
    \/ EtsyDeliveryAttempt
    \/ EtsyDeliveryRaised
    \/ EtsyBroadSkipped
    \/ EtsyBroadTag
    \/ EtsyBroadRaised
    \/ EtsyBroadExit
    \/ EtsyShippingCost
    \/ EtsyReturn

SpecEtsy == EtsyInit /\ [][EtsyNext]_vars

\* --- Claims about parse_etsy_html_content -------------------------------

\* No application/ld+json script of the page holds a Product record.
NoProductRecord ==
    \A k \in DOMAIN etsy.soup.scripts :
        ~(etsy.soup.scripts[k].kind = "object" /\ etsy.soup.scripts[k].type = <<"P", "r", "o", "d", "u", "c", "t">>)

\* C9 as stated: for markup without an embedded JSON-LD Product record,
\* parse_etsy_html_content does not raise, and the mapping it returns has a
\* string, never None, under each of its nine keys.
C9_AsStated ==
    NoProductRecord =>
        /\ etsy.returned # "ValueError"
        /\ etsy.returned = "data" =>
              /\ DOMAIN etsy.data = DOMAIN NewData
              /\ \A key \in DOMAIN etsy.data : etsy.data[key] # None

\* The price a record quotes: lowPrice of an AggregateOffer, price otherwise.
QuotedPrice(record) ==
    IF record.offers.type = <<"A", "g", "g", "r", "e", "g", "a", "t", "e", "O", "f", "f", "e", "r">> THEN record.offers.lowPrice ELSE record.offers.price

\* A Product record with a name, an offer price and a brand name, whose url
\* is a string or absent.
CarriesAll(record) ==
    /\ record.kind = "object"
    /\ record.url.t \in {"absent", "str"}
    /\ record.type = <<"P", "r", "o", "d", "u", "c", "t">>
    /\ record.name.t = "str" /\ record.name.v # <<>>
    /\ record.offers.t # "absent"
    /\ QuotedPrice(record).t # "absent" /\ QuotedPrice(record).v # <<>>
    /\ record.brand.t # "absent"
    /\ record.brand.name.t = "str" /\ record.brand.name.v # <<>>

\* C10 as stated: for every embedded Product record that carries a name, an
\* offer price and a brand name, the mapping returned holds the three values
\* exactly as the record encodes them, whatever the markup around it holds.
C10_AsStated ==
    etsy.returned = "data" =>
        \A k \in DOMAIN etsy.soup.scripts :
            CarriesAll(etsy.soup.scripts[k]) =>
                /\ etsy.data.product_title = etsy.soup.scripts[k].name.v
                /\ etsy.data.price_str = QuotedPrice(etsy.soup.scripts[k]).v
                /\ etsy.data.shop_name = etsy.soup.scripts[k].brand.name.v

\* The record is the first script of the page, its offers and its brand are
\* JSON objects, and it carries a name, a price that is a string or a number,
\* and a brand name.
FirstRecordRead ==
    /\ etsy.soup.scripts # <<>>
    /\ CarriesAll(etsy.soup.scripts[1])
    /\ etsy.soup.scripts[1].offers.t = "obj"
    /\ etsy.soup.scripts[1].brand.t = "obj"

\* C10 as amended: when the first application/ld+json script is a Product
\* record whose offers and brand are objects, the mapping holds its name and
\* brand name as encoded and its price as str() renders it (a string as it
\* is, the number 25.00 as 25.0) from the JSON-LD step on, through the markup
\* probes, up to the end of the call.
C10_FirstRecordAsEncoded ==
    (FirstRecordRead /\ pc # "etsy_parse") =>
        /\ etsy.data.product_title = etsy.soup.scripts[1].name.v
        /\ etsy.data.price_str = PyStr(QuotedPrice(etsy.soup.scripts[1]))
        /\ etsy.data.shop_name = etsy.soup.scripts[1].brand.name.v

\* A page whose first script is such a record and whose markup offers an h1
\* title, a price element and a shop link has been parsed and returned.
C10_Witness ==
    /\ pc = "etsy_done"
    /\ etsy.returned = "data"
    /\ FirstRecordRead
    /\ etsy.soup.h1 # None
    /\ etsy.soup.price_tag # None
    /\ etsy.soup.shop_link.found
    /\ etsy.data.shop_url = <<"h", "t", "t", "p", "s", ":", "/", "/", "w", "w", "w", ".", "e", "t", "s", "y", ".", "c", "o", "m", "/", "s", "h", "o", "p", "/", "S", "h", "o", "p", "B">>

\* The JSON-LD step ended in a caught exception.
RecordFailed == JsonLdOutcome(etsy.soup) \in {"error", "partial"}

\* C11 as stated: when processing the embedded record fails at any step, the
\* mapping returned equals the one returned for the same markup with the
\* record removed: the markup probes supply every field and no field keeps a
\* value of the record.
C11_AsStated ==
    (RecordFailed /\ etsy.returned = "data") =>
        etsy.data = Returned(MarkupFallback(NewData, [etsy.soup EXCEPT !.scripts = Tail(@)]),
                             etsy.est_delivery_days, etsy.shipping_cost_str)

\* The date texts the three strategies find, in their order: the value span
\* of the tagged list item, the arrival sentence inside that item, the arrival
\* sentences of the elements of the section.
DeliveryCandidates(shipping_section) ==
    LET items == SelectSeq(shipping_section.children, LAMBDA c : c.tag \in {"li_span", "li_text"})
        by_span == IF items # <<>> /\ items[1].tag = "li_span" THEN <<Strip(items[1].text)>> ELSE <<>>
        by_item == IF items # <<>> /\ HasArrivalPhrase(items[1].text)
                   THEN <<Strip(SplitLast(Strip(items[1].text), <<"b", "y">>, FALSE))>> ELSE <<>>
        sentences == SelectSeq(PossibleTags(shipping_section), HasArrivalPhrase)
        by_section == [k \in DOMAIN sentences |->
                          TrimNonWord(Strip(SplitLast(sentences[k], <<" ", "b", "y", " ">>, TRUE)))]
    IN  by_span \o by_item \o by_section

\* The text is a parseable date on the day now: a day count comes back for it.
Parseable(date_part, now) ==
    \E days \in {calculate_days_until_delivery(date_part, now)} :
        ~days.raised /\ days.value # <<>> /\ days.value # date_part

\* C12 as stated: the strategies are tried in order and the search stops only
\* at the first that yields a parseable date; text that is not a parseable
\* date does not stop it, so when any strategy finds a parseable date the
\* first such date determines processing_time.
C12_AsStated ==
    (etsy.returned = "data" /\ etsy.soup.shipping.found) =>
        LET candidates == DeliveryCandidates(etsy.soup.shipping)
            hits == {k \in DOMAIN candidates : Parseable(candidates[k], today)}
            first == CHOOSE k \in hits : \A o \in hits : k <= o
        IN  hits # {} =>
                etsy.data.processing_time = calculate_days_until_delivery(candidates[first], today).value

\* ---------------------------------------------------------------------
\* calculate_days_until_delivery called on its own
\* ---------------------------------------------------------------------

MonthAbbr ==
    <<<<"J", "a", "n">>, <<"F", "e", "b">>, <<"M", "a", "r">>, <<"A", "p", "r">>, <<"M", "a", "y">>, <<"J", "u", "n">>, <<"J", "u", "l">>, <<"A", "u", "g">>, <<"S", "e", "p">>, <<"O", "c", "t">>, <<"N", "o", "v">>, <<"D", "e", "c">>>>

\* The day numbers and months of the date texts.
DeliveryDayTexts == {<<"1">>, <<"0", "6">>, <<"2", "0">>, <<"2", "8">>, <<"2", "9">>, <<"3", "0">>, <<"3", "1">>}

DeliveryMonths == {1, 2, 4, 12}

SingleText(day, m) == day \o <<" ">> \o MonthAbbr[m]

RangeText(start_day, end_day, m) == start_day \o <<"-">> \o end_day \o <<" ">> \o MonthAbbr[m]

\* The texts calculate_days_until_delivery is called with: single dates,
\* ranges, text without a date, the empty text.
DeliveryTexts ==
    {SingleText(day, m) : day \in DeliveryDayTexts, m \in DeliveryMonths}
    \cup {RangeText(start_day, end_day, m) :
            start_day \in DeliveryDayTexts \ {<<"2", "8">>, <<"3", "0">>},
            end_day \in DeliveryDayTexts \ {<<"2", "8">>, <<"3", "0">>}, m \in DeliveryMonths}
    \cup {<<>>, <<"s", "o", "o", "n">>, <<"G", "e", "t", " ", "i", "t", " ", "b", "y", " ", "3", "0", " ", "A", "p", "r">>}

\* date.today() of the call.
DeliveryTodays ==
    {[year |-> 2024, month |-> 4, day |-> 20], [year |-> 2024, month |-> 2, day |-> 20],
     [year |-> 2024, month |-> 3, day |-> 1], [year |-> 2026, month |-> 11, day |-> 5],
     [year |-> 2023, month |-> 12, day |-> 31], [year |-> 2028, month |-> 2, day |-> 26]}

DeliveryInit ==
    /\ pc = "delivery_call"
    /\ raw = <<>>
    /\ today \in DeliveryTodays
    /\ erank = NoErank
    /\ everbee = NoEverbee
    /\ etsy = NoEtsy
    /\ session = init_session_state
    /\ calls = NoCalls
    /\ db = NoDb
    /\ \E date_str \in DeliveryTexts : delivery = [NoDelivery EXCEPT !.date_str = date_str]

\* Lines 100-101 and 107-108: a day count is returned.
DeliveryCounted ==
    /\ pc = "delivery_call"
    /\ \E days \in {calculate_days_until_delivery(delivery.date_str, today)} :
          /\ ~days.raised
          /\ days.value # delivery.date_str
          /\ delivery' = [delivery EXCEPT !.returned = "str", !.time_str = days.value]
    /\ pc' = "delivery_done"
    /\ UNCHANGED <<raw, today, erank, everbee, etsy, session, calls, db>>

\* Lines 54-55, 64-65, 85-86, 103, 105 and 110: the text comes back as it is.
DeliveryUnchanged ==
    /\ pc = "delivery_call"
    /\ \E days \in {calculate_days_until_delivery(delivery.date_str, today)} :
          /\ ~days.raised
          /\ days.value = delivery.date_str
          /\ delivery' = [delivery EXCEPT !.returned = "str", !.time_str = days.value]
    /\ pc' = "delivery_done"
    /\ UNCHANGED <<raw, today, erank, everbee, etsy, session, calls, db>>

\* Line 97: the ValueError of strptime leaves the function.
DeliveryRaised ==
    /\ pc = "delivery_call"
    /\ calculate_days_until_delivery(delivery.date_str, today).raised
    /\ delivery' = [delivery EXCEPT !.returned = "ValueError"]
    /\ pc' = "delivery_done"
    /\ UNCHANGED <<raw, today, erank, everbee, etsy, session, calls, db>>

DeliveryNext ==
    \/ DeliveryCounted
    \/ DeliveryUnchanged
    \/ DeliveryRaised

SpecDelivery == DeliveryInit /\ [][DeliveryNext]_vars

\* --- Claims about calculate_days_until_delivery --------------------------

DayOn(day, m, year) == [year |-> year, month |-> m, day |-> DigitsToInt(day)]

\* The day is a day of the calendar: it exists in that month of a leap year.
CalendarDay(day, m) == IsDate(DayOn(day, m, 2024))

DaysText(n) == IntToDigits(n) \o <<" ", "d", "a", "y", "s">>

\* The date a day and month resolve to: in the current year, in the next year
\* when that lies before today.
Resolved(day, m) ==
    IF Ordinal(DayOn(day, m, today.year)) >= Ordinal(today) THEN DayOn(day, m, today.year)
    ELSE DayOn(day, m, today.year + 1)

\* C13 as stated: for a single date 'D Mon' that names a calendar day, and
\* every today, the call returns '<n> days' where n >= 0 counts the days from
\* today to that day in the current year, or in the next year when the
\* current-year date lies before today.
C13_AsStated ==
    \A day \in DeliveryDayTexts, m \in DeliveryMonths :
        (pc = "delivery_done" /\ delivery.date_str = SingleText(day, m) /\ CalendarDay(day, m)) =>
            /\ delivery.returned = "str"
            /\ Ordinal(Resolved(day, m)) - Ordinal(today) >= 0
            /\ delivery.time_str = DaysText(Ordinal(Resolved(day, m)) - Ordinal(today))

\* C13 as amended: for a single date 'D Mon' the call returns '<n> days' with
\* n >= 0 as above when the day exists in the current year and, if that date
\* lies before today, in the next year as well; otherwise (29 Feb outside such
\* years, a day the month does not have) it returns the text unchanged.
C13_DaysToResolvedDate ==
    \A day \in DeliveryDayTexts, m \in DeliveryMonths :
        (pc = "delivery_done" /\ delivery.date_str = SingleText(day, m)) =>
            /\ delivery.returned = "str"
            /\ IF IsDate(DayOn(day, m, today.year)) /\ IsDate(Resolved(day, m))
               THEN /\ Ordinal(Resolved(day, m)) - Ordinal(today) >= 0
                    /\ delivery.time_str = DaysText(Ordinal(Resolved(day, m)) - Ordinal(today))
               ELSE delivery.time_str = delivery.date_str

\* '30 Apr' on 2024-04-20 gave '10 days', and a date before today was counted
\* in the next year.
C13_Witness ==
    /\ pc = "delivery_done"
    /\ \/ /\ delivery.date_str = <<"3", "0", " ", "A", "p", "r">>
          /\ today = [year |-> 2024, month |-> 4, day |-> 20]
          /\ delivery.time_str = <<"1", "0", " ", "d", "a", "y", "s">>
       \/ /\ delivery.date_str = <<"1", " ", "J", "a", "n">>
          /\ today = [year |-> 2024, month |-> 4, day |-> 20]
          /\ delivery.time_str = <<"2", "5", "6", " ", "d", "a", "y", "s">>

\* C14 as stated: for a range 'D1-D2 Mon' whose two days exist in the years
\* they resolve to, and every today, both ends are resolved on their own, the
\* end is moved to the year after the start's when it lies before the start,
\* and the call returns 'a-b days' with a >= 0, b >= 0 and b >= a.
C14_AsStated ==
    \A start_day \in DeliveryDayTexts, end_day \in DeliveryDayTexts, m \in DeliveryMonths :
        (/\ pc = "delivery_done"
         /\ delivery.date_str = RangeText(start_day, end_day, m)
         /\ IsDate(DayOn(start_day, m, today.year)) /\ IsDate(Resolved(start_day, m))
         /\ IsDate(DayOn(end_day, m, today.year)) /\ IsDate(Resolved(end_day, m))) =>
            LET start_date == Resolved(start_day, m)
                end_date == IF Ordinal(Resolved(end_day, m)) < Ordinal(start_date)
                            THEN DayOn(end_day, m, start_date.year + 1)
                            ELSE Resolved(end_day, m)
                a == Ordinal(start_date) - Ordinal(today)
                b == Ordinal(end_date) - Ordinal(today)
            IN  /\ delivery.returned = "str"
                /\ a >= 0 /\ b >= a
                /\ delivery.time_str = IntToDigits(a) \o <<"-">> \o DaysText(b)

\* b - a of a text 'a-b days'.
RangeWidth(text) ==
    LET dash == CHOOSE k \in DOMAIN text : text[k] = "-"
    IN  DigitsToInt(SubSeq(text, dash + 1, Len(text) - 5)) - DigitsToInt(SubSeq(text, 1, dash - 1))

\* C29 as stated: a range 'D1-D2 Mon' with D1 <= D2 that the call converts
\* to 'a-b days' keeps its width for every today: b - a = D2 - D1, also when
\* today lies after day D1 and on or before day D2 of the month.
C29_AsStated ==
    \A start_day \in DeliveryDayTexts, end_day \in DeliveryDayTexts, m \in DeliveryMonths :
        (/\ pc = "delivery_done"
         /\ delivery.date_str = RangeText(start_day, end_day, m)
         /\ DigitsToInt(start_day) <= DigitsToInt(end_day)
         /\ delivery.returned = "str"
         /\ delivery.time_str # delivery.date_str) =>
            RangeWidth(delivery.time_str) = DigitsToInt(end_day) - DigitsToInt(start_day)

\* A day-count string: '<n> days' or '<a>-<b> days'.
IsDayCount(text) ==
    \E n \in 1..Len(text), k \in 0..Len(text) :
        /\ text = SubSeq(text, 1, n) \o <<" ", "d", "a", "y", "s">>
        /\ IF k = 0 THEN IsDigitStr(SubSeq(text, 1, n))
           ELSE /\ k < n
                /\ text[k] = "-"
                /\ IsDigitStr(SubSeq(text, 1, k - 1))
                /\ IsDigitStr(SubSeq(text, k + 1, n))

AttemptText(shipping_section) ==
    LET items == SelectSeq(shipping_section.children, LAMBDA c : c.tag \in {"li_span", "li_text"})
    IN  IF items = <<>> THEN <<>>
        ELSE IF items[1].tag = "li_span" THEN Strip(items[1].text)
        ELSE IF HasArrivalPhrase(items[1].text)
             THEN Strip(SplitLast(Strip(items[1].text), <<"b", "y">>, FALSE))
        ELSE <<>>

PlainTextInit == ErankInit \/ EverbeeInit

PlainTextNext == ErankNext \/ EverbeeNext

SpecPlainText == PlainTextInit /\ [][PlainTextNext]_vars

\* The 9-line loop is about to read the chunk at its cursor.
ErankReadsChunk ==
    /\ pc = "erank_chunks"
    /\ erank.current_index < erank.data_end_index
    /\ ~NotEnoughLines(erank.current_index, erank.data_end_index)

\* The 17-line loop is about to read the chunk at its cursor.
EverbeeReadsChunk ==
    /\ pc = "everbee_table"
    /\ everbee.i < everbee.table_end_index
    /\ ~TableTooShort(everbee.i, everbee.table_end_index)

\* The tag loop is about to read the lines of a tag at its cursor.
EverbeeReadsTag ==
    /\ pc = "everbee_tags"
    /\ everbee.i < Len(everbee.tag_block_lines)

\* C16: every index k the two extractors read satisfies 0 <= k < number of
\* lines: the boundary scans leave a region that lies inside the lines, the
\* 9-line and the 17-line loop read a chunk only when all of it lies inside
\* the lines, and the tag loop reads and consumes lines of its block only.
C16_IndexesInRange ==
    /\ pc \in {"erank_chunks", "erank_done"} =>
           /\ erank.data_start_index \in {-1} \cup 0..(Len(erank.lines) - 1)
           /\ erank.data_end_index \in 0..Len(erank.lines)
    /\ ErankReadsChunk =>
           /\ 0 <= erank.current_index
           /\ erank.current_index + (ChunkLen - 1) < Len(erank.lines)
    /\ pc = "everbee_table" =>
           /\ 0 <= everbee.table_start_index
           /\ everbee.i >= everbee.table_start_index
           /\ everbee.table_end_index \in 0..Len(everbee.lines)
    /\ EverbeeReadsChunk =>
           /\ 0 <= everbee.i
           /\ everbee.i + (num_expected_fields - 1) < Len(everbee.lines)
    /\ EverbeeReadsTag =>
           /\ 0 <= everbee.i
           /\ Len(everbee.tag_block_lines) <= Len(everbee.lines)
           /\ everbee.i + TagStep(everbee.tag_block_lines, everbee.i).lines_consumed
                  <= Len(everbee.tag_block_lines)

\* The 9-line loop reads a chunk whose last line is the last line of the text.
C16_Witness ==
    /\ ErankReadsChunk
    /\ erank.current_index + ChunkLen = Len(erank.lines)

(***************************************************************************)
(* A session: parse calls one after another                                *)
(***************************************************************************)
\* The most parse calls of a session.
MaxCalls == 3

\* The locals of parse_erank_text_content if keywords_data outlived the call.
ErankLocals_KeepsEntries(erank_text) ==
    [lines |-> ErankLines(erank_text), extracted_seed_keyword |-> None,
     seed_keyword_line_index |-> -1, extracted_country_code |-> None,
     data_start_index |-> -1, data_end_index |-> Len(ErankLines(erank_text)),
     current_index |-> 0, keywords_data |-> erank.keywords_data]

\* Lines 904-910: the locals of parse_erank_text_content when it is entered.
ErankLocals(erank_text) ==
    [NoErank EXCEPT !.lines = ErankLines(erank_text),
                    !.data_end_index = Len(ErankLines(erank_text))]

\* Lines 116-128: the locals of parse_etsy_html_content when it is entered.
EtsyLocals(soup) ==
    [soup |-> soup, data |-> NewData, est_delivery_days |-> <<>>,
     shipping_cost_str |-> <<>>, i |-> 0, returned |-> "pending"]

\* The keyword pages of a session: a page with a seed line, a well-formed and
\* a damaged chunk; a page without the start sentinel.
ErankCallTexts ==
    << <<SeedLineSpec, CountryLine, exclude_marker, QuotaLine>> \o ChunkA
           \o [ChunkB EXCEPT ![4] = <<"7">>] \o <<RowsPerPageLine>>,
       <<SeedLineSpec>> >>

\* The Everbee texts of a session: none, a blank line, a page with a damaged
\* and a well-formed record, tags and details.
EverbeeCallTexts ==
    << <<>>,
       << <<" ">> >>,
       (CHOOSE h \in EverbeeHeads : Len(h) = 2)
           \o RecordLines(1, <<"$","9",".","5">>, <<"O","t","h","e","r">>)
           \o RecordLines(2, <<"$","1",",","0","0","0">>, <<"P","h","y","s","i","c","a","l">>)
           \o (CHOOSE e \in EverbeeTails : Len(e) > 8) >>

\* The Etsy pages of a session and the day each is parsed on.
EtsyCallPages ==
    LET markup == CHOOSE m \in EtsyMarkups : m.h1 = <<" ", "B", "l", "u", "e", " ", "M", "u", "g", " ">>
        section(children) == [found |-> TRUE, children |-> children]
        child(tag, text) == CHOOSE c \in ShippingChildren : c.tag = tag /\ SubSeq(c.text, 1, Len(text)) = text
        partial == CHOOSE scripts \in EtsyScripts :
                       Len(scripts) = 1 /\ JsonLdOutcome(Soup(scripts, markup, NoShippingSection)) = "partial"
        product == <<FullProduct(Offer(JsonString(<<"2", "5", ".", "0", "0">>)), Brand(<<"S", "h", "o", "p", "A">>))>>
        window == section(<<child("li_span", <<"2", "5">>)>>)
    IN  << [soup |-> Soup(product, markup, section(<<child("li_span", <<"s", "o">>)>>)),
            today |-> [year |-> 2024, month |-> 2, day |-> 20]],
           [soup |-> Soup(partial, markup, window), today |-> [year |-> 2024, month |-> 2, day |-> 20]],
           [soup |-> Soup(partial, markup, window), today |-> [year |-> 2028, month |-> 2, day |-> 26]],
           [soup |-> Soup(<<>>, markup, section(<<child("p", <<"A", "r", "r", "i", "v", "e", "s", " ", "b", "y", " ", "p">>),
                                                  child("p", <<"D", "e", "l">>)>>)),
            today |-> [year |-> 2024, month |-> 2, day |-> 20]],
           [soup |-> Soup(<<OtherScript("malformed", <<>>)>>, markup, NoShippingSection),
            today |-> [year |-> 2024, month |-> 2, day |-> 20]],
           [soup |-> Soup(<<>>, markup, section(<<child("p", <<"A", "r", "r", "i", "v", "e", "s", " ", "b", "y", " ", "1">>)>>)),
            today |-> [year |-> 2024, month |-> 2, day |-> 20]] >>

\* No call is running and the session can make another.
CanCall == pc = "idle" /\ calls.count < MaxCalls

\* The session's record when the call is made: the call is counted, and it is
\* a repeated call if it has returned before and another call was made since.
Called(call) ==
    [calls EXCEPT !.count = @ + 1,
                  !.last = call,
                  !.repeated = IF call # calls.last /\ \E r \in calls.results : r.call = call
                               THEN @ \cup {call} ELSE @]

\* A session starts: nothing has been parsed.
CallsInit ==
    /\ pc = "idle"
    /\ raw = <<>>
    /\ today = NoDate
    /\ erank = NoErank
    /\ everbee = NoEverbee
    /\ etsy = NoEtsy
    /\ delivery = NoDelivery
    /\ calls = NoCalls
    /\ db = NoDb
    /\ session \in EverbeeSessions

\* parse_erank_text_content is called on a pasted page.
CallErank ==
    /\ CanCall
    /\ \E k \in DOMAIN ErankCallTexts :
          /\ raw' = ErankCallTexts[k]
          /\ erank' = ErankLocals(ErankCallTexts[k])
          /\ calls' = Called(<<"erank", k>>)
    /\ pc' = "erank_seed"
    /\ UNCHANGED <<today, everbee, etsy, session, delivery, db>>

\* The 'Parse Everbee Text' button is pressed on a pasted text.
CallEverbee ==
    /\ CanCall
    /\ \E k \in DOMAIN EverbeeCallTexts :
          /\ raw' = EverbeeCallTexts[k]
          /\ calls' = Called(<<"everbee", k>>)
    /\ everbee' = NoEverbee
    /\ pc' = "everbee_button"
    /\ UNCHANGED <<today, erank, etsy, session, delivery, db>>

\* parse_etsy_html_content is called on a page.
CallEtsy ==
    /\ CanCall
    /\ \E k \in DOMAIN EtsyCallPages :
          /\ etsy' = EtsyLocals(EtsyCallPages[k].soup)
          /\ today' = EtsyCallPages[k].today
          /\ calls' = Called(<<"etsy", k>>)
    /\ pc' = "etsy_parse"
    /\ UNCHANGED <<raw, erank, everbee, session, delivery, db>>

\* What the call that ran last returned.
CallResult(fn) ==
    [keywords |-> IF fn = "erank"
                  THEN <<erank.extracted_seed_keyword, erank.extracted_country_code, erank.keywords_data>>
                  ELSE <<>>,
     returned |-> IF fn = "everbee" THEN everbee.returned
                  ELSE IF fn = "etsy" THEN etsy.returned ELSE "tuple",
     parsed_data |-> IF fn = "everbee" /\ everbee.returned = "dict" THEN everbee.parsed_data ELSE EmptyDict,
     data |-> IF fn = "etsy" /\ etsy.returned = "data" THEN etsy.data ELSE NewData]

\* The call returns to the session.
CallReturns ==
    /\ pc \in {"erank_done", "everbee_done", "etsy_done"}
    /\ calls' = [calls EXCEPT !.results = @ \cup {[call |-> calls.last, value |-> CallResult(calls.last[1])]}]
    /\ pc' = "idle"
    /\ UNCHANGED <<raw, today, erank, everbee, etsy, session, delivery, db>>

CallsNext ==
    \/ CallErank
    \/ CallEverbee
    \/ CallEtsy
    \/ CallReturns
    \/ ErankNext
    \/ EverbeeNext
    \/ EtsyNext

SpecCalls == CallsInit /\ [][CallsNext]_vars

\* C17: each parse function is deterministic and keeps no state between
\* calls: two calls with the same input on the same day return the same
\* result, whatever parse calls were made before or in between.
C17_SameResult ==
    \A a, b \in calls.results : a.call = b.call => a.value = b.value

\* A call of parse_erank_text_content that found entries has been repeated
\* after another call was made in between, and the repeated call has returned.
C17_Witness ==
    /\ pc = "idle"
    /\ calls.last \in calls.repeated
    /\ \E r \in calls.results : r.call = calls.last /\ r.value.keywords # <<>> /\ r.value.keywords[3] # <<>>

\* --- The line sequences of the two plain-text extractors -----------------

\* parse_erank_text_content is running or has returned.
ErankCalled == pc \in {"erank_seed", "erank_bounds", "erank_chunks", "erank_done"}

\* No white space at either end of the line.
Trimmed(l) == l = <<>> \/ (l[1] \notin Space /\ l[Len(l)] \notin Space)

\* The raw lines that hold more than white space.
NonBlank(text) == {k \in DOMAIN text : \E c \in DOMAIN text[k] : text[k][c] \notin Space}

NoSeedNoCountry(ls) ==
    /\ SeedLineIndex(ls) = -1
    /\ \A i \in 0..(Len(ls) - 1) : ~(CountryInRange(i, -1) /\ CountryHit(At(ls, i)))

\* The entries the chunk loop returns for the region cur..end-1 of the lines.
RECURSIVE Entries(_, _, _)
Entries(ls, cur, end) ==
    IF cur >= end \/ NotEnoughLines(cur, end) THEN <<>>
    ELSE IF ChunkValid(ls, cur)
         THEN <<keyword_entry(ls, cur)>> \o Entries(ls, cur + ChunkLen, end)
         ELSE Entries(ls, SkipFrom(ls, cur, end), end)

\* The entries returned for the lines when a seed-keyword line and a
\* country-code line stand before them.
EntriesWithSeedAndCountry(ls) ==
    LET with == <<SeedLineTight, CountryLine>> \o ls
        start == DataStartIndex(with, SeedLineIndex(with))
    IN  IF start = -1 THEN <<>> ELSE Entries(with, start, DataEndIndex(with, start))

\* C19: when neither a seed-keyword line nor a country-code line is found,
\* the seed keyword is None and the country 'Unknown', and the parse goes on:
\* the entries returned are those returned when the two lines are present.
C19_EntriesWithoutSeedAndCountry ==
    (ErankDone /\ NoSeedNoCountry(erank.lines)) =>
        /\ erank.extracted_seed_keyword = None
        /\ erank.extracted_country_code = Unknown
        /\ erank.keywords_data = EntriesWithSeedAndCountry(erank.lines)

\* A page without the two lines has been parsed and gave several entries.
C19_Witness ==
    /\ ErankDone
    /\ NoSeedNoCountry(erank.lines)
    /\ erank.extracted_seed_keyword = None
    /\ erank.extracted_country_code = Unknown
    /\ Len(erank.keywords_data) >= 2

(***************************************************************************)
(* src/database.py: add_erank_analysis                                     *)
(*                                                                         *)
(* A timestamp is modelled by its day, a day by its number.                *)
(***************************************************************************)
\* The most calls of add_erank_analysis in a behaviour.
MaxSaves == 3

\* The last day of the calendar of a behaviour.
MaxDay == 3

\* The rows of erank_keywords whose keyword is keyword_text and whose linked
\* analysis has any country code.
ExistingRows_AnyCountry(tables, keyword_text, country_code) ==
    {k \in DOMAIN tables.erank_keywords : tables.erank_keywords[k].keyword = keyword_text}

\* The rows the SELECT of lines 377-384 joins and filters: erank_keywords rows
\* with the keyword whose analysis has the country code.
ExistingRows(tables, keyword_text, country_code) ==
    {k \in DOMAIN tables.erank_keywords :
        /\ tables.erank_keywords[k].keyword = keyword_text
        /\ \E a \in DOMAIN tables.erank_keyword_analyses :
              /\ tables.erank_keyword_analyses[a].id = tables.erank_keywords[k].analysis_id
              /\ tables.erank_keyword_analyses[a].country_code = country_code}

\* ORDER BY k.added_at DESC LIMIT 1: the rows fetchone() can return.
LatestRows(tables, keyword_text, country_code) ==
    LET found == ExistingRows(tables, keyword_text, country_code)
    IN  {k \in found : \A o \in found :
            tables.erank_keywords[k].added_at >= tables.erank_keywords[o].added_at}

\* A dict of raw_keyword_list.
KeywordDict(keyword, value) ==
    [Keyword |-> keyword, Avg_Searches |-> value, Avg_Clicks |-> value, Avg_CTR |-> value,
     Etsy_Competition |-> value, Google_Searches |-> value]

\* The lists saved: one keyword; two keywords; a keyword twice, with other
\* values; a dict without keyword before a keyword.
SavedLists ==
    { <<KeywordDict(<<"m","u","g">>, <<"1">>)>>,
      <<KeywordDict(<<"m","u","g">>, <<"2">>), KeywordDict(<<"c","u","p">>, <<"1">>)>>,
      <<KeywordDict(<<"m","u","g">>, <<"1">>), KeywordDict(<<"m","u","g">>, <<"2">>)>>,
      <<KeywordDict(None, <<"1">>), KeywordDict(<<"c","u","p">>, <<"2">>)>> }

\* The country codes of the analyses saved.
SavedCountries == {<<"U","S","A">>, Unknown}

\* The values passed as raw_keyword_list: the lists; a tuple of one dict and
\* None, which are no lists (line 370) and of which None has no len().
SavedArguments ==
    {[type |-> "list", dicts |-> l] : l \in SavedLists}
        \cup {[type |-> "tuple", dicts |-> <<>>], [type |-> "NoneType", dicts |-> <<>>]}

\* The database is initialised and empty.
DbInit ==
    /\ pc = "db_idle"
    /\ raw = <<>>
    /\ today = NoDate
    /\ erank = NoErank
    /\ everbee = NoEverbee
    /\ etsy = NoEtsy
    /\ session = init_session_state
    /\ delivery = NoDelivery
    /\ calls = NoCalls
    /\ db = NoDb

DbFrame == <<raw, today, erank, everbee, etsy, session, delivery, calls>>

\* The tables of the database.
DbTables == [erank_keyword_analyses |-> db.erank_keyword_analyses, erank_keywords |-> db.erank_keywords]

\* The dict the loop is at.
kw_dict == db.save.raw_keyword_list[db.save.i]

\* Midnight passes between two calls.
NextDay ==
    /\ pc = "db_idle"
    /\ db.day < MaxDay
    /\ db' = [db EXCEPT !.day = @ + 1]
    /\ UNCHANGED pc
    /\ UNCHANGED DbFrame

\* Lines 342-366: the call reads the date and then the time (midnight may
\* pass in between), begins the transaction and inserts the analysis.
AddErankAnalysis ==
    /\ pc = "db_idle"
    /\ db.saves < MaxSaves
    /\ \E argument \in SavedArguments, country_code \in SavedCountries,
          now \in {db.day, db.day + 1} :
          /\ now <= MaxDay
          /\ LET analysis_id == Len(db.erank_keyword_analyses) + 1
             IN  db' = [db EXCEPT
                     !.saves = @ + 1,
                     !.day = now,
                     !.returned = None,
                     !.erank_keyword_analyses =
                         Append(@, [id |-> analysis_id, seed_keyword |-> None,
                                    country_code |-> country_code]),
                     !.save = [NoSave EXCEPT
                         !.country_code = country_code,
                         !.raw_keyword_list = argument.dicts,
                         !.raw_keyword_list_type = argument.type,
                         !.analysis_id = analysis_id,
                         !.today_date = db.day,
                         !.current_timestamp_str = now,
                         !.i = 1,
                         !.begun = DbTables]]
    /\ pc' = "db_keywords"
    /\ UNCHANGED DbFrame

\* Lines 371-374: a dict without keyword text is skipped.
KeywordMissing ==
    /\ pc = "db_keywords"
    /\ db.save.i <= Len(db.save.raw_keyword_list)
    /\ Falsy(kw_dict.Keyword)
    /\ db' = [db EXCEPT !.save.i = @ + 1, !.save.skipped_count = @ + 1]
    /\ UNCHANGED pc
    /\ UNCHANGED DbFrame

\* Lines 398-406: no row for the keyword and the country: a row is inserted.
KeywordInsert ==
    /\ pc = "db_keywords"
    /\ db.save.i <= Len(db.save.raw_keyword_list)
    /\ ~Falsy(kw_dict.Keyword)
    /\ LatestRows(DbTables, kw_dict.Keyword, db.save.country_code) = {}
    /\ db' = [db EXCEPT
            !.erank_keywords =
                Append(@, [id |-> Len(db.erank_keywords) + 1,
                           analysis_id |-> db.save.analysis_id,
                           keyword |-> kw_dict.Keyword,
                           avg_searches_str |-> kw_dict.Avg_Searches,
                           avg_clicks_str |-> kw_dict.Avg_Clicks,
                           avg_ctr_str |-> kw_dict.Avg_CTR,
                           etsy_competition_str |-> kw_dict.Etsy_Competition,
                           google_searches_str |-> kw_dict.Google_Searches,
                           added_at |-> db.save.current_timestamp_str]),
            !.save.i = @ + 1,
            !.save.inserted_count = @ + 1]
    /\ UNCHANGED pc
    /\ UNCHANGED DbFrame

\* Lines 408-423: the latest row was added on today_date: it is skipped.
KeywordSkip ==
    /\ pc = "db_keywords"
    /\ db.save.i <= Len(db.save.raw_keyword_list)
    /\ ~Falsy(kw_dict.Keyword)
    /\ \E existing \in LatestRows(DbTables, kw_dict.Keyword, db.save.country_code) :
          db.erank_keywords[existing].added_at = db.save.today_date
    /\ db' = [db EXCEPT !.save.i = @ + 1, !.save.skipped_count = @ + 1]
    /\ UNCHANGED pc
    /\ UNCHANGED DbFrame

\* Lines 424-437: the latest row is of another day: it is updated.
KeywordUpdate ==
    /\ pc = "db_keywords"
    /\ db.save.i <= Len(db.save.raw_keyword_list)
    /\ ~Falsy(kw_dict.Keyword)
    /\ \E existing \in LatestRows(DbTables, kw_dict.Keyword, db.save.country_code) :
          /\ db.erank_keywords[existing].added_at # db.save.today_date
          /\ db' = [db EXCEPT
                  !.erank_keywords[existing] =
                      [@ EXCEPT !.analysis_id = db.save.analysis_id,
                                !.avg_searches_str = kw_dict.Avg_Searches,
                                !.avg_clicks_str = kw_dict.Avg_Clicks,
                                !.avg_ctr_str = kw_dict.Avg_CTR,
                                !.etsy_competition_str = kw_dict.Etsy_Competition,
                                !.google_searches_str = kw_dict.Google_Searches,
                                !.added_at = db.save.current_timestamp_str],
                  !.save.i = @ + 1,
                  !.save.updated_count = @ + 1]
    /\ UNCHANGED pc
    /\ UNCHANGED DbFrame

\* Lines 441-442 and 450: the list is done, the transaction is committed,
\* the summary printed and the analysis id returned.
DbCommit ==
    /\ pc = "db_keywords"
    /\ db.save.i > Len(db.save.raw_keyword_list)
    /\ db.save.raw_keyword_list_type # "NoneType"
    /\ db' = [db EXCEPT !.returned = db.save.analysis_id, !.save.returns = "id"]
    /\ pc' = "db_idle"
    /\ UNCHANGED DbFrame

\* Lines 441-447 and 450: the transaction is committed, len(raw_keyword_list)
\* in the summary raises TypeError, the handler rolls back a transaction that
\* is no longer open and None is returned.
DbCommitSummaryFails ==
    /\ pc = "db_keywords"
    /\ db.save.i > Len(db.save.raw_keyword_list)
    /\ db.save.raw_keyword_list_type = "NoneType"
    /\ db' = [db EXCEPT !.save.analysis_id = None, !.returned = None,
                        !.save.returns = "None"]
    /\ pc' = "db_idle"
    /\ UNCHANGED DbFrame

\* Lines 444-447: a statement raised; the transaction is rolled back and
\* None returned.
DbRollback ==
    /\ pc = "db_keywords"
    /\ db' = [db EXCEPT
            !.erank_keyword_analyses = db.save.begun.erank_keyword_analyses,
            !.erank_keywords = db.save.begun.erank_keywords,
            !.save.analysis_id = None,
            !.returned = None,
            !.save.returns = "None"]
    /\ pc' = "db_idle"
    /\ UNCHANGED DbFrame

DbNext ==
    \/ NextDay
    \/ AddErankAnalysis
    \/ KeywordMissing
    \/ KeywordInsert
    \/ KeywordSkip
    \/ KeywordUpdate
    \/ DbCommit
    \/ DbCommitSummaryFails
    \/ DbRollback

SpecDb == DbInit /\ [][DbNext]_vars

\* --- Claims about add_erank_analysis ------------------------------------

\* The country code of the analysis a keyword row is linked to.
CountryOf(row) ==
    LET a == CHOOSE a \in DOMAIN db.erank_keyword_analyses :
                 db.erank_keyword_analyses[a].id = row.analysis_id
    IN  db.erank_keyword_analyses[a].country_code

\* The rows of erank_keywords for a keyword and a country.
RowsFor(keyword, country_code) ==
    {k \in DOMAIN db.erank_keywords :
        /\ db.erank_keywords[k].keyword = keyword
        /\ CountryOf(db.erank_keywords[k]) = country_code}

\* erank_keywords holds at most one row per keyword and country.
OneRowPerKeywordAndCountry ==
    \A k, o \in DOMAIN db.erank_keywords :
        (/\ db.erank_keywords[k].keyword = db.erank_keywords[o].keyword
         /\ CountryOf(db.erank_keywords[k]) = CountryOf(db.erank_keywords[o])) => k = o

\* The row a dict gives when it is stored under the id.
StoredRow(id, dict) ==
    [id |-> id, analysis_id |-> db.save.analysis_id, keyword |-> dict.Keyword,
     avg_searches_str |-> dict.Avg_Searches, avg_clicks_str |-> dict.Avg_Clicks,
     avg_ctr_str |-> dict.Avg_CTR, etsy_competition_str |-> dict.Etsy_Competition,
     google_searches_str |-> dict.Google_Searches,
     added_at |-> db.save.current_timestamp_str]

\* One dict with a keyword is processed: without a row for keyword and
\* country a row is inserted; a row added today is left as it is; a row of
\* another day is updated in place, under its id, and linked to the analysis
\* of the call.
UpsertStep ==
    (pc = "db_keywords" /\ db'.save.i = db.save.i + 1 /\ ~Falsy(kw_dict.Keyword)) =>
        LET mine == RowsFor(kw_dict.Keyword, db.save.country_code)
            k == CHOOSE k \in mine : TRUE
        IN  IF mine = {}
            THEN db'.erank_keywords =
                     Append(db.erank_keywords, StoredRow(Len(db.erank_keywords) + 1, kw_dict))
            ELSE IF db.erank_keywords[k].added_at = db.save.today_date
            THEN db'.erank_keywords = db.erank_keywords
            ELSE db'.erank_keywords =
                     [db.erank_keywords EXCEPT ![k] = StoredRow(db.erank_keywords[k].id, kw_dict)]

\* C20: after any sequence of add_erank_analysis calls from an empty
\* database, erank_keywords holds at most one row per keyword and country of
\* the linked analysis: a keyword without a row is inserted, one whose row
\* was added today is skipped (also the second time in one list), one whose
\* row is of another day is updated in place and relinked.
C20_OneRowPerKeywordAndCountry ==
    []OneRowPerKeywordAndCountry /\ [][UpsertStep]_vars

\* Calls have inserted, skipped and updated: a row was inserted by the first
\* analysis and is now linked to a later one, and the call that just
\* returned skipped a keyword.
C20_Witness ==
    /\ pc = "db_idle"
    /\ db.save.i > Len(db.save.raw_keyword_list)
    /\ db.save.skipped_count > 0
    /\ Len(db.erank_keywords) >= 2
    /\ \E k \in DOMAIN db.erank_keywords :
          /\ db.erank_keywords[k].analysis_id > 1
          /\ \E o \in DOMAIN db.erank_keywords : o > k /\ db.erank_keywords[o].analysis_id = 1

\* The call of add_erank_analysis ends: when it returns None both tables are
\* as they were when the call began; when it returns the id, the row of the
\* analysis and what the keywords of the call wrote are in the tables.
AllOrNothingStep ==
    (pc = "db_keywords" /\ pc' = "db_idle") =>
        IF db'.save.returns = "None"
        THEN /\ db'.erank_keyword_analyses = db.save.begun.erank_keyword_analyses
             /\ db'.erank_keywords = db.save.begun.erank_keywords
        ELSE /\ db'.erank_keyword_analyses = db.erank_keyword_analyses
             /\ db'.erank_keywords = db.erank_keywords
             /\ Len(db'.erank_keyword_analyses) = Len(db.save.begun.erank_keyword_analyses) + 1
             /\ db.save.i > Len(db.save.raw_keyword_list)

RolledBackCall ==
    /\ pc = "db_idle"
    /\ db.save.returns = "None"
    /\ db.save.raw_keyword_list_type = "list"
    /\ db.save.inserted_count + db.save.updated_count > 0

(***************************************************************************)
(* The opportunities table (src/database.py): add_opportunity and          *)
(* delete_opportunity_by_id                                                *)
(***************************************************************************)
\* The number of add_opportunity calls of a run of the model.
MaxAdds == 4

\* Without the UNIQUE constraint no product_url is ever taken.
UrlTaken_NoConstraint(opportunities, product_url) == FALSE

\* product_url TEXT UNIQUE NOT NULL: a row of the table holds this url.
UrlTaken(opportunities, product_url) ==
    \E k \in DOMAIN opportunities : opportunities[k].product_url = product_url

\* valid_data of add_opportunity: the entries of data that are not None. A
\* column left out of the INSERT is NULL in the row.
valid_data(data) == {k \in DOMAIN data : data[k] # None}

\* cursor.execute(sql, values) raises sqlite3.IntegrityError: a NOT NULL
\* column is left out, or the product_url is in the table already.
IntegrityError(opportunities, data) ==
    \/ "product_title" \notin valid_data(data)
    \/ "product_url" \notin valid_data(data)
    \/ UrlTaken(opportunities, data.product_url)

\* The row an INSERT stores: id INTEGER PRIMARY KEY AUTOINCREMENT is one
\* more than the largest id the table ever held.
InsertedRow(data) ==
    [id |-> db.sqlite_sequence + 1, product_title |-> data.product_title,
     product_url |-> data.product_url, price |-> data.price]

\* The product urls and the dicts add_opportunity is called with.
OpportunityUrls == {<<"e","t","s","y",".","c","o","m","/","l","/","1">>, <<"e","t","s","y",".","c","o","m","/","l","/","2">>, <<"e","t","s","y",".","c","o","m","/","l","/","3">>}

OpportunityData ==
    [product_title : {None, <<"M", "u", "g">>},
     product_url : OpportunityUrls \cup {None},
     price : {None, <<"9">>}]

OpportunitiesInit ==
    /\ pc = "opp_idle"
    /\ raw = <<>>
    /\ today = NoDate
    /\ erank = NoErank
    /\ everbee = NoEverbee
    /\ etsy = NoEtsy
    /\ delivery = NoDelivery
    /\ calls = NoCalls
    /\ session = init_session_state
    /\ db = NoDb

\* add_opportunity(data), the INSERT is committed: the new row's id is
\* returned.
AddOpportunityInserted ==
    /\ pc = "opp_idle"
    /\ db.call.adds < MaxAdds
    /\ \E data \in OpportunityData :
        /\ ~IntegrityError(db.opportunities, data)
        /\ db' = [db EXCEPT
                    !.opportunities = Append(@, InsertedRow(data)),
                    !.sqlite_sequence = @ + 1,
                    !.call = [fn |-> "add_opportunity", data |-> data, returned |-> "id",
                              last_id |-> db.sqlite_sequence + 1, adds |-> @.adds + 1]]
    /\ UNCHANGED <<pc, raw, today, erank, everbee, etsy, session, delivery, calls>>

\* add_opportunity(data), the INSERT raises sqlite3.IntegrityError: None.
AddOpportunityIntegrityError ==
    /\ pc = "opp_idle"
    /\ db.call.adds < MaxAdds
    /\ \E data \in OpportunityData :
        /\ IntegrityError(db.opportunities, data)
        /\ db' = [db EXCEPT
                    !.call = [fn |-> "add_opportunity", data |-> data, returned |-> "None",
                              last_id |-> 0, adds |-> @.adds + 1]]
    /\ UNCHANGED <<pc, raw, today, erank, everbee, etsy, session, delivery, calls>>

\* add_opportunity(data), execute or commit raises another exception (the
\* database is locked, the disk is full): the connection is closed without a
\* commit and None is returned.
AddOpportunityError ==
    /\ pc = "opp_idle"
    /\ db.call.adds < MaxAdds
    /\ \E data \in OpportunityData :
        db' = [db EXCEPT
                 !.call = [fn |-> "add_opportunity", data |-> data, returned |-> "None",
                           last_id |-> 0, adds |-> @.adds + 1]]
    /\ UNCHANGED <<pc, raw, today, erank, everbee, etsy, session, delivery, calls>>

\* delete_opportunity_by_id(opportunity_id): True when a row was deleted.
DeleteOpportunity ==
    /\ pc = "opp_idle"
    /\ db.call.fn # "none"
    /\ \E opportunity_id \in 1..MaxAdds :
        LET kept == SelectSeq(db.opportunities, LAMBDA row : row.id # opportunity_id)
        IN  db' = [db EXCEPT
                     !.opportunities = kept,
                     !.call = [@ EXCEPT !.fn = "delete_opportunity_by_id",
                                        !.data = <<>>,
                                        !.returned = IF kept # db.opportunities
                                                     THEN "True" ELSE "False",
                                        !.last_id = opportunity_id]]
    /\ UNCHANGED <<pc, raw, today, erank, everbee, etsy, session, delivery, calls>>

\* delete_opportunity_by_id, sqlite3.Error: rollback, False.
DeleteOpportunityError ==
    /\ pc = "opp_idle"
    /\ db.call.fn # "none"
    /\ \E opportunity_id \in 1..MaxAdds :
        db' = [db EXCEPT !.call = [@ EXCEPT !.fn = "delete_opportunity_by_id",
                                            !.data = <<>>, !.returned = "False",
                                            !.last_id = opportunity_id]]
    /\ UNCHANGED <<pc, raw, today, erank, everbee, etsy, session, delivery, calls>>

OpportunitiesNext ==
    \/ AddOpportunityInserted
    \/ AddOpportunityIntegrityError
    \/ AddOpportunityError
    \/ DeleteOpportunity
    \/ DeleteOpportunityError

SpecOpportunities == OpportunitiesInit /\ [][OpportunitiesNext]_vars

\* No two rows of opportunities hold the same product_url.
UniqueProductUrls ==
    \A k, o \in DOMAIN db.opportunities :
        db.opportunities[k].product_url = db.opportunities[o].product_url => k = o

\* What a call of add_opportunity does to the table, by what it returns.
AddOpportunityStep ==
    db'.call.fn = "add_opportunity" /\ db'.call.adds = db.call.adds + 1 =>
        /\ db'.call.returned \in {"id", "None"}
        /\ db'.call.returned = "id" =>
            /\ db'.opportunities = Append(db.opportunities, InsertedRow(db'.call.data))
            /\ db'.call.last_id = db'.opportunities[Len(db'.opportunities)].id
            /\ \A k \in DOMAIN db.opportunities :
                db.opportunities[k].id # db'.call.last_id
        /\ db'.call.returned = "None" => db'.opportunities = db.opportunities
        /\ (\E k \in DOMAIN db.opportunities :
               db.opportunities[k].product_url = db'.call.data.product_url) =>
            /\ db'.call.returned = "None"
            /\ db'.opportunities = db.opportunities

\* C21: add_opportunity returns the id of the row it inserted or None when
\* the insert fails; no two rows of opportunities ever share a product_url,
\* and a call whose product_url is in the table already returns None and
\* leaves the table as it was.
C21_UniqueProductUrl == []UniqueProductUrls /\ [][AddOpportunityStep]_vars

\* A call with a product_url that a row holds has returned None, after
\* another product_url was deleted and added again under a new id.
C21_Witness ==
    /\ db.call.fn = "add_opportunity"
    /\ db.call.returned = "None"
    /\ db.call.data.product_url # None
    /\ \E k \in DOMAIN db.opportunities :
        db.opportunities[k].product_url = db.call.data.product_url
    /\ \E k \in DOMAIN db.opportunities : db.opportunities[k].id > Len(db.opportunities)

(***************************************************************************)
(* The table loop of parse_everbee_text_content, against its description   *)
(***************************************************************************)
\* The first line at or after start that matches an end marker, else the
\* number of lines.
FirstEndMarker(ls, start) ==
    IF \E j \in start..(Len(ls) - 1) : IsTableEnd(At(ls, j))
    THEN CHOOSE j \in start..(Len(ls) - 1) :
            /\ IsTableEnd(At(ls, j))
            /\ \A o \in start..(j - 1) : ~IsTableEnd(At(ls, o))
    ELSE Len(ls)

\* The chunk at line c fits before end and each of its lines matches the
\* pattern of its position.
ChunkMatches(ls, c, end) ==
    /\ c + num_expected_fields <= end
    /\ \A k \in 0..(num_expected_fields - 1) :
          FieldMatches(expected_fields_in_order[k + 1], At(ls, c + k))

\* The lines at which a chunk is accepted when the cursor starts at c, moves
\* by a whole chunk after an accept and by one line otherwise.
RECURSIVE ChunkStarts(_, _, _)
ChunkStarts(ls, c, end) ==
    IF c >= end THEN <<>>
    ELSE IF ChunkMatches(ls, c, end)
         THEN <<c>> \o ChunkStarts(ls, c + num_expected_fields, end)
    ELSE ChunkStarts(ls, c + 1, end)

\* One pass of the table loop that does not leave it.
TableLoopStep ==
    pc = "everbee_table" /\ pc' = "everbee_table" /\ everbee'.i # everbee.i =>
        IF ChunkMatches(everbee.lines, everbee.i, everbee.table_end_index)
        THEN /\ everbee'.i = everbee.i + num_expected_fields
             /\ Len(everbee'.all_listings_data) = Len(everbee.all_listings_data) + 1
        ELSE /\ everbee'.i = everbee.i + 1
             /\ everbee'.all_listings_data = everbee.all_listings_data

\* After the loop: the listings are the chunks at the accepted lines, which
\* are in increasing order, do not overlap and lie in the table region.
TableLoopResult ==
    pc = "everbee_select" =>
        LET ls == everbee.lines
            end == FirstEndMarker(ls, everbee.table_start_index)
        IN  \E starts \in {ChunkStarts(ls, everbee.table_start_index, end)} :
            /\ everbee.table_end_index = end
            /\ Len(everbee.all_listings_data) = Len(starts)
            /\ \A k \in DOMAIN starts :
                /\ everbee.all_listings_data[k] = parsed_chunk_data(ls, starts[k])
                /\ everbee.table_start_index <= starts[k]
                /\ starts[k] + num_expected_fields <= end
                /\ k > 1 => starts[k - 1] + num_expected_fields <= starts[k]

\* C22: in the table loop a chunk at cursor i is accepted exactly when
\* i + 17 <= table_end and its 17 lines match the patterns of their
\* positions; the cursor then moves by 17, and by 1 after a reject; the
\* accepted chunks are in line order, do not overlap and lie between
\* table_start and table_end, the first end marker at or after table_start
\* or the number of lines.
C22_TableChunks == []TableLoopResult /\ [][TableLoopStep]_vars

\* A line was rejected, then two chunks were accepted one after the other,
\* and an end marker closes the table before the last line.
C22_Witness ==
    /\ pc = "everbee_select"
    /\ Len(everbee.all_listings_data) >= 2
    /\ everbee.table_end_index < Len(everbee.lines)
    /\ \E starts \in {ChunkStarts(everbee.lines, everbee.table_start_index,
                                  everbee.table_end_index)} :
          /\ starts[1] > everbee.table_start_index
          /\ starts[2] = starts[1] + num_expected_fields

(***************************************************************************)
(* The chunk loop of parse_erank_text_content, against its description     *)
(***************************************************************************)
\* The first line at or after start that holds an end sentinel, else the
\* number of lines.
FirstEndSentinel(ls, start) ==
    IF \E j \in start..(Len(ls) - 1) : IsEndMarker(At(ls, j))
    THEN CHOOSE j \in start..(Len(ls) - 1) :
            /\ IsEndMarker(At(ls, j))
            /\ \A o \in start..(j - 1) : ~IsEndMarker(At(ls, o))
    ELSE Len(ls)

\* The nine lines from c lie before end; the first holds a letter and is not
\* digits only, the fourth and the ninth match their patterns.
WindowValid(ls, c, end) ==
    /\ c + 8 < end
    /\ \E k \in 1..Len(At(ls, c)) : At(ls, c)[k] \in Alpha
    /\ ~IsDigitStr(RemoveBlanks(At(ls, c)))
    /\ counts_match(At(ls, c + 3))
    /\ is_likely_google(At(ls, c + 8))

\* One line after c, and then past the blank lines before end.
RECURSIVE PastBlanks(_, _, _)
PastBlanks(ls, c, end) ==
    IF c < end /\ At(ls, c) = <<>> THEN PastBlanks(ls, c + 1, end) ELSE c

\* The lines at which the described loop builds an entry, from cursor c.
RECURSIVE EntryStarts(_, _, _)
EntryStarts(ls, c, end) ==
    IF c + 8 >= end THEN <<>>
    ELSE IF WindowValid(ls, c, end)
         THEN <<c>> \o EntryStarts(ls, c + 9, end)
    ELSE EntryStarts(ls, PastBlanks(ls, c + 1, end), end)

\* One turn of the chunk loop that does not leave it.
ChunkLoopStep ==
    pc = "erank_chunks" /\ pc' = "erank_chunks" =>
        IF WindowValid(erank.lines, erank.current_index, erank.data_end_index)
        THEN /\ erank'.current_index = erank.current_index + 9
             /\ erank'.keywords_data =
                    Append(erank.keywords_data, EntryOf(erank.lines, erank.current_index))
        ELSE /\ erank'.current_index =
                    PastBlanks(erank.lines, erank.current_index + 1, erank.data_end_index)
             /\ erank'.keywords_data = erank.keywords_data

\* What is returned: nothing without a data region, else the entries of the
\* windows the described loop accepts, which lie in the region and do not
\* overlap.
ChunkLoopResult ==
    pc = "erank_done" =>
        IF erank.data_start_index = -1 THEN erank.keywords_data = <<>>
        ELSE LET ls == erank.lines
                 data_start == erank.data_start_index
                 data_end == FirstEndSentinel(ls, data_start)
             IN  \E starts \in {EntryStarts(ls, data_start, data_end)} :
                 /\ data_start >= 2 /\ At(ls, data_start - 2) = exclude_marker
                 /\ erank.data_end_index = data_end
                 /\ Len(erank.keywords_data) = Len(starts)
                 /\ \A k \in DOMAIN starts :
                     /\ erank.keywords_data[k] = EntryOf(ls, starts[k])
                     /\ data_start <= starts[k] /\ starts[k] + 8 < data_end
                     /\ WindowValid(ls, starts[k], data_end)
                     /\ k > 1 => starts[k - 1] + 8 < starts[k]

\* C23: every entry parse_erank_text_content returns is built from nine
\* consecutive lines inside the data region (from two lines after
\* 'EXCLUDE KEYWORDS' to the first end sentinel or the end of the lines) that
\* pass the three validations; after a failed validation the cursor moves one
\* line and then past blank lines; the windows of the entries do not overlap.
C23_EntriesFromValidWindows == []ChunkLoopResult /\ [][ChunkLoopStep]_vars

\* Two entries were returned with rejected lines, one of them blank, between
\* their windows, and an end sentinel closes the region.
C23_Witness ==
    /\ pc = "erank_done"
    /\ erank.data_start_index # -1
    /\ erank.data_end_index < Len(erank.lines)
    /\ \E starts \in {EntryStarts(erank.lines, erank.data_start_index, erank.data_end_index)} :
          /\ Len(starts) >= 2
          /\ Len(erank.keywords_data) = Len(starts)
          /\ \E k \in 2..Len(starts) :
                /\ starts[k] > starts[k - 1] + 9
                /\ \E j \in (starts[k - 1] + 9)..(starts[k] - 1) : At(erank.lines, j) = <<>>

(***************************************************************************)
(* The tag loop of parse_everbee_text_content, against its description     *)
(***************************************************************************)
\* A name line: it holds a letter, is not made of digits, commas, dots,
\* blanks and percent signs, and is no level word.
NameLine(l) ==
    /\ \E k \in DOMAIN l : l[k] \in Alpha
    /\ \E k \in DOMAIN l : l[k] \notin Digit \cup Space \cup {",", ".", "%"}
    /\ Lower(l) \notin {<<"h","i","g","h">>, <<"m","e","d","i","u","m">>, <<"l","o","w">>}

\* A volume or competition line: digits and commas.
VolumeLine(l) == l # <<>> /\ \A k \in DOMAIN l : l[k] \in Digit \cup {","}

LevelLine(l) == Lower(l) \in {<<"h","i","g","h">>, <<"m","e","d","i","u","m">>, <<"l","o","w">>}

\* A score line: digits, commas and dots.
ScoreLine(l) == l # <<>> /\ \A k \in DOMAIN l : l[k] \in Digit \cup {",", "."}

\* The line k of the block exists and passes the test.
TagLine(block, k, Test(_)) == k < Len(block) /\ Test(At(block, k))

\* A level line stands after the competition line at cursor i.
LevelConsumed(block, i) == TagLine(block, i + 3, LevelLine)

\* Where the score line of the tag at cursor i stands.
ScoreIndex(block, i) == IF LevelConsumed(block, i) THEN i + 4 ELSE i + 3

\* Name, volume, competition, the optional level and the score validate in
\* this order from cursor i.
TagValidates(block, i) ==
    /\ TagLine(block, i, NameLine)
    /\ TagLine(block, i + 1, VolumeLine)
    /\ TagLine(block, i + 2, VolumeLine)
    /\ TagLine(block, ScoreIndex(block, i), ScoreLine)

\* A mandatory line of the tag at cursor i is there and does not validate,
\* all before it having validated.
TagMismatch(block, i) ==
    \/ ~NameLine(At(block, i))
    \/ /\ NameLine(At(block, i))
       /\ i + 1 < Len(block)
       /\ \/ ~VolumeLine(At(block, i + 1))
          \/ /\ i + 2 < Len(block)
             /\ \/ ~VolumeLine(At(block, i + 2))
                \/ /\ ScoreIndex(block, i) < Len(block)
                   /\ ~ScoreLine(At(block, ScoreIndex(block, i)))

\* One pass of the tag loop that does not leave it.
TagLoopStep ==
    pc = "everbee_tags" /\ pc' = "everbee_tags" =>
        LET block == everbee.tag_block_lines
            i == everbee.i
            emitted == everbee'.tags_list # everbee.tags_list
        IN  /\ emitted <=> TagValidates(block, i)
            /\ emitted =>
                /\ everbee'.tags_list = Append(everbee.tags_list,
                      [name |-> At(block, i), volume |-> At(block, i + 1),
                       competition |-> At(block, i + 2),
                       level |-> IF LevelConsumed(block, i) THEN At(block, i + 3)
                                 ELSE <<"N","/","A">>,
                       score |-> At(block, ScoreIndex(block, i))])
                /\ everbee'.i = ScoreIndex(block, i) + 1
                /\ everbee'.i - i \in {4, 5}
                /\ everbee'.i - i = 4 <=>
                      everbee'.tags_list[Len(everbee'.tags_list)].level = <<"N","/","A">>
            /\ TagMismatch(block, i) => ~emitted /\ everbee'.i = i + 1
            /\ ~emitted => everbee'.i = i + 1

\* C24: the tag loop emits a record at the cursor exactly when a name, a
\* volume, a competition, an optional level (High, Medium or Low) and a score
\* line validate one after the other; its level is 'N/A' exactly when no level
\* line was consumed; the cursor then moves by the 4 or 5 lines consumed; when
\* a mandatory line does not validate nothing is emitted and the cursor moves
\* by exactly one line.
C24_TagRecords == [][TagLoopStep]_vars

\* The loop is done: it emitted a tag with a level and a tag without one and
\* passed over a line between them.
C24_Witness ==
    /\ pc = "everbee_details"
    /\ Len(everbee.tags_list) = 2
    /\ LevelLine(everbee.tags_list[1].level)
    /\ everbee.tags_list[2].level = <<"N","/","A">>
    /\ everbee.i > 9

(***************************************************************************)
(* listing_type within one call of parse_everbee_text_content              *)
(***************************************************************************)
\* The lines of the More Details section that are the key 'Listing Type' and
\* have a value line after them, in line order.
ListingTypeKeys(ls) ==
    LET start == DetailsStartIndex(ls, everbee.details_marker_index)
        IsKey(j) == Lower(At(ls, j)) = <<"l","i","s","t","i","n","g"," ","t","y","p","e">>
    IN  IF start = -1 THEN {}
        ELSE {j \in start..(Len(ls) - 2) : IsKey(j) /\ MatchedKey(At(ls, j + 1)) = 0}

\* The value lines of the key at line j, joined by a blank.
RECURSIVE ValueFrom(_, _)
ValueFrom(ls, j) ==
    IF j >= Len(ls) \/ MatchedKey(At(ls, j)) # 0 THEN <<>>
    ELSE LET rest == ValueFrom(ls, j + 1)
         IN  IF rest = <<>> THEN At(ls, j) ELSE At(ls, j) \o <<" ">> \o rest

\* The More Details section runs: a listing_type that parsed_data holds stays
\* as it is; otherwise the first 'Listing Type' entry gives it.
ListingTypeStep ==
    pc = "everbee_details" /\ pc' = "everbee_return" =>
        IF "listing_type" \in DOMAIN everbee.parsed_data
        THEN everbee'.parsed_data["listing_type"] = everbee.parsed_data["listing_type"]
        ELSE IF ListingTypeKeys(everbee.lines) = {}
             THEN "listing_type" \notin DOMAIN everbee'.parsed_data
        ELSE everbee'.parsed_data["listing_type"] =
                ValueFrom(everbee.lines, Min(ListingTypeKeys(everbee.lines)) + 1)

\* C25: within one call listing_type is first-match-wins: once it is assigned,
\* from the selected table record or from the first 'Listing Type' key of the
\* More Details section, no later 'Listing Type' entry changes it.
C25_ListingTypeFirstWins == [][ListingTypeStep]_vars

\* No record was selected, the section names the listing type twice with
\* different values, and the first is the one returned.
C25_Witness ==
    /\ pc = "everbee_return"
    /\ everbee.returned = "dict"
    /\ everbee.all_listings_data = <<>>
    /\ Cardinality(ListingTypeKeys(everbee.lines)) >= 2
    /\ \E j, o \in ListingTypeKeys(everbee.lines) :
          /\ j < o
          /\ ValueFrom(everbee.lines, j + 1) # ValueFrom(everbee.lines, o + 1)
          /\ everbee.parsed_data["listing_type"] = ValueFrom(everbee.lines, j + 1)

\* A record was selected and the section names another listing type: the
\* record's is the one returned.
C25_WitnessFromTable ==
    /\ pc = "everbee_return"
    /\ everbee.returned = "dict"
    /\ everbee.all_listings_data # <<>>
    /\ ListingTypeKeys(everbee.lines) # {}
    /\ "listing_type" \in DOMAIN everbee.parsed_data
    /\ everbee.parsed_data["listing_type"] #
          ValueFrom(everbee.lines, Min(ListingTypeKeys(everbee.lines)) + 1)

(***************************************************************************)
(* The price of the form and the 'Parse Everbee Text' button               *)
(***************************************************************************)
\* No step of the button's handler changes the two price fields.
PriceKept ==
    /\ session'["opp_form_price_str"] = session["opp_form_price_str"]
    /\ session'["etsy_price_float"] = session["etsy_price_float"]

\* C26: the 'Parse Everbee Text' action leaves opp_form_price_str and
\* etsy_price_float as they were before it, also when the selected table
\* record carries a Price: the price of the product page is kept.
C26_EverbeeKeepsPrice == [][PriceKept]_vars

\* The handler has updated the form from a record whose Price is not the
\* price of the form, which is still the one of the product page.
C26_Witness ==
    /\ pc = "everbee_done"
    /\ ParsedDataTruthy
    /\ "price_str" \in DOMAIN everbee.parsed_data
    /\ everbee.parsed_data["price_str"] \notin {None, <<>>, session["opp_form_price_str"]}
    /\ session["opp_form_product_title"] = everbee.parsed_data["product_title"]
    /\ session["opp_form_price_str"] = <<"$", "2", "5", ".", "5", "0">>
    /\ session["etsy_price_float"] = <<2550, 2>>

(***************************************************************************)
(* Termination of the scan loops                                           *)
(***************************************************************************)
\* Nothing has been pasted yet.
PasteInit ==
    /\ pc = "paste"
    /\ raw = <<>>
    /\ today = NoDate
    /\ erank = NoErank
    /\ everbee = NoEverbee
    /\ etsy = NoEtsy
    /\ delivery = NoDelivery
    /\ calls = NoCalls
    /\ db = NoDb
    /\ session = init_session_state

\* The longest keyword page and the longest Everbee page pasted, in lines.
MaxErankPaste == 24

MaxEverbeePaste == 45

\* A keyword page is pasted and parse_erank_text_content is called on it:
\* the state after the initialisations of the function.
PasteErank ==
    /\ pc = "paste"
    /\ \E text \in {t \in ErankInputs : Len(t) <= MaxErankPaste} :
          /\ raw' = text
          /\ erank' = ErankLocals(text)
    /\ pc' = "erank_seed"
    /\ UNCHANGED <<today, everbee, etsy, session, delivery, calls, db>>

\* An Everbee page is pasted into a form and the button is pressed.
PasteEverbee ==
    /\ pc = "paste"
    /\ raw' \in {t \in EverbeeInputs : Len(t) <= MaxEverbeePaste}
    /\ session' \in EverbeeSessions
    /\ pc' = "everbee_button"
    /\ UNCHANGED <<today, erank, everbee, etsy, delivery, calls, db>>

PasteNext == PasteErank \/ PasteEverbee \/ PlainTextNext

\* The loops run in a single thread and nothing suspends them: a loop that
\* can make a pass makes it.
SpecPlainTextFair ==
    /\ PasteInit
    /\ [][PasteNext]_vars
    /\ WF_vars(pc = "erank_chunks" /\ ErankNext)
    /\ WF_vars(pc = "everbee_table" /\ EverbeeNext)
    /\ WF_vars(pc = "everbee_tags" /\ EverbeeNext)

\* A pass of one of the three loops that stays in the loop moves its cursor
\* forward, and not past the end of the loop's region.
CursorRises ==
    /\ pc = "everbee_table" /\ pc' = "everbee_table" =>
          /\ everbee'.i > everbee.i
          /\ everbee'.i <= everbee.table_end_index
    /\ pc = "everbee_tags" /\ pc' = "everbee_tags" =>
          /\ everbee'.i > everbee.i
          /\ everbee'.i <= Len(everbee.tag_block_lines)
    /\ pc = "erank_chunks" /\ pc' = "erank_chunks" =>
          /\ erank'.current_index > erank.current_index
          /\ erank'.current_index <= erank.data_end_index

\* C27: the 17-line table loop, the tag loop and the 9-line keyword loop
\* terminate on every line sequence: each pass leaves the loop or moves the
\* cursor forward inside the region, and each loop is left in the end.
C27_LoopsTerminate ==
    /\ [][CursorRises]_vars
    /\ (pc = "everbee_table") ~> (pc = "everbee_select")
    /\ (pc = "everbee_tags") ~> (pc = "everbee_details")
    /\ (pc = "erank_chunks") ~> (pc = "erank_done")

\* A keyword loop that rejected a line and accepted a chunk has ended.
C27_Witness ==
    /\ pc = "erank_done"
    /\ erank.data_start_index # -1
    /\ erank.keywords_data # <<>>
    /\ erank.current_index > erank.data_start_index + 9 * Len(erank.keywords_data)

\* A table loop and a tag loop that passed over lines have ended.
C27_WitnessEverbee ==
    /\ pc = "everbee_done"
    /\ everbee.tags_list # <<>>
    /\ everbee.all_listings_data # <<>>
    /\ everbee.i > 4 * Len(everbee.tags_list) + 1

(***************************************************************************)
(* The Opportunity Tracker tab: the form, the 'Add/Update Opportunity in   *)
(* Database' and the delete button, and the clearing of the form           *)
(*                                                                         *)
(* A step is one run of the script, from the check of clear_form at its    *)
(* top to the page it leaves: pc tells whether the page shows nothing new, *)
(* a warning or an error, or whether st.rerun() has asked for another run. *)
(***************************************************************************)
\* Lines 1206-1217: the keys set to "" when the form is cleared.
form_keys_to_clear_NoTextAreas ==
    {"opp_form_product_title", "opp_form_product_url", "opp_form_shop_name",
     "opp_form_shop_url", "opp_form_price_str", "opp_form_processing_time",
     "opp_form_shipping_cost_str", "opp_form_est_revenue_str", "opp_form_est_sales_str",
     "opp_form_last_30_days_sales_str", "opp_form_last_30_days_revenue_str",
     "opp_form_listing_age", "opp_form_shop_age_overall", "opp_form_category",
     "opp_form_niche_tags", "opp_form_total_sales_str", "opp_form_views_str",
     "opp_form_favorites_str", "opp_form_conversion_rate", "opp_form_listing_type",
     "opp_form_aliexpress_urls", "opp_form_notes"}

form_keys_to_clear ==
    {"opp_form_product_title", "opp_form_product_url", "opp_form_shop_name",
     "opp_form_shop_url", "opp_form_price_str", "opp_form_processing_time",
     "opp_form_shipping_cost_str", "opp_form_est_revenue_str", "opp_form_est_sales_str",
     "opp_form_last_30_days_sales_str", "opp_form_last_30_days_revenue_str",
     "opp_form_listing_age", "opp_form_shop_age_overall", "opp_form_category",
     "opp_form_niche_tags", "opp_form_total_sales_str", "opp_form_views_str",
     "opp_form_favorites_str", "opp_form_conversion_rate", "opp_form_listing_type",
     "opp_form_aliexpress_urls", "opp_form_notes",
     "pasted_html", "pasted_everbee_text"}

\* st.session_state.get('clear_form', False)
clear_form(state) == Get(state, "clear_form", FALSE)

\* Lines 1204-1223: st.session_state after the check at the top of the tab.
ClearFormCheck(state) ==
    IF clear_form(state)
    THEN [k \in DOMAIN state |->
            IF k \in form_keys_to_clear THEN <<>>
            ELSE IF k \in {"is_digital", "clear_form"} THEN FALSE
            ELSE IF k = "tags_list" THEN <<>>
            ELSE IF k = "etsy_price_float" THEN None
            ELSE state[k]]
    ELSE state

\* validate_float and validate_int (lines 1141-1149) for the strings of the
\* forms of this model, which hold no sign, exponent or blank: the value and
\* whether the string is accepted.
validate_float(val_str) ==
    IF val_str = <<>> THEN [value |-> None, valid |-> TRUE]
    ELSE IF safe_float(val_str) # <<>> THEN [value |-> safe_float(val_str), valid |-> TRUE]
    ELSE [value |-> None, valid |-> FALSE]

validate_int(val_str) ==
    LET digits == SelectSeq(val_str, LAMBDA c : c # ",")
    IN  IF val_str = <<>> THEN [value |-> None, valid |-> TRUE]
        ELSE IF IsDigitStr(digits) THEN [value |-> IntToDigits(DigitsToInt(digits)), valid |-> TRUE]
        ELSE [value |-> None, valid |-> FALSE]

\* Lines 1560-1575: input_valid of the add handler.
input_valid(state) ==
    /\ state["opp_form_product_title"] # <<>>
    /\ state["opp_form_product_url"] # <<>>
    /\ \A k \in {"opp_form_price_str", "opp_form_shipping_cost_str",
                 "opp_form_est_revenue_str", "opp_form_last_30_days_revenue_str"} :
          validate_float(state[k]).valid
    /\ \A k \in {"opp_form_est_sales_str", "opp_form_total_sales_str", "opp_form_views_str",
                 "opp_form_favorites_str", "opp_form_last_30_days_sales_str"} :
          validate_int(state[k]).valid

\* Lines 1577-1596: the columns of opportunity_data the model keeps.
opportunity_data(state) ==
    [product_title |-> state["opp_form_product_title"],
     product_url |-> clean_etsy_url(state["opp_form_product_url"]),
     price |-> validate_float(state["opp_form_price_str"]).value]

\* The product urls typed into the form: two of one listing, one of another.
TrackerUrls ==
    {<<"h","t","t","p","s",":","/","/","e","t","s","y",".","c","o","m","/","l","/","1","?","r","e","f","=","a">>,
     <<"h","t","t","p","s",":","/","/","e","t","s","y",".","c","o","m","/","l","/","1","?","r","e","f","=","b">>,
     <<"e","t","s","y",".","c","o","m","/","l","/","2">>}

\* A form: the title, the url, the price and the sales figure as typed; the
\* text areas, the tags, the price and the notes as the parse buttons leave
\* them when parsed.
TrackerForm(title, url, price_str, est_sales_str, parsed) ==
    [init_session_state EXCEPT
        !["opp_form_product_title"] = title,
        !["opp_form_product_url"] = url,
        !["opp_form_price_str"] = price_str,
        !["opp_form_est_sales_str"] = est_sales_str,
        !["opp_form_notes"] = IF parsed THEN <<"s","e","e","n">> ELSE <<>>,
        !["pasted_html"] = IF parsed THEN <<"<","h","1",">">> ELSE <<>>,
        !["pasted_everbee_text"] = IF parsed THEN <<"T","a","g","s">> ELSE <<>>,
        !["is_digital"] = parsed,
        !["tags_list"] = IF parsed THEN <<[name |-> <<"m","u","g">>]>> ELSE <<>>,
        !["etsy_price_float"] = IF parsed THEN <<950, 2>> ELSE None]

\* What is in the form when a run starts: every url with a title and with
\* numbers that are accepted or left out, and forms with one thing wrong (no
\* title, no url, a price, a sales figure that is no number).
TrackerForms ==
    LET Mug == <<"M","u","g">>
        url == CHOOSE u \in TrackerUrls : TRUE
    IN  {TrackerForm(Mug, u, numbers[1], numbers[2], parsed) :
            u \in TrackerUrls,
            numbers \in {<< <<>>, <<>> >>, << <<"$","9",".","5">>, <<"1",",","2","0","0">> >>},
            parsed \in BOOLEAN}
        \cup {TrackerForm(<<>>, url, <<"9",".","5">>, <<"7">>, TRUE),
              TrackerForm(Mug, <<>>, <<"9",".","5">>, <<"7">>, TRUE),
              TrackerForm(Mug, url, <<"a","b","c">>, <<"7">>, TRUE),
              TrackerForm(Mug, url, <<"9",".","5">>, <<"9",".","5">>, TRUE)}

\* The form with the values of another one; clear_form is no widget.
FillForm(state, form) == [k \in DOMAIN state |-> IF k \in DOMAIN form THEN form[k] ELSE state[k]]

TrackerInit ==
    /\ pc = "tracker_page"
    /\ raw = <<>>
    /\ today = NoDate
    /\ erank = NoErank
    /\ everbee = NoEverbee
    /\ etsy = NoEtsy
    /\ delivery = NoDelivery
    /\ calls = NoCalls
    /\ session = init_session_state
    /\ db = NoDb

\* The page is shown and waits for the user.
PageShown == pc \in {"tracker_page", "tracker_warning", "tracker_error"}

TrackerFrame == <<raw, today, erank, everbee, etsy, delivery, calls>>

\* A run after the widgets of the form were changed (by the user, or by a
\* parse button in the run before): no button of the tab is pressed.
RunFormChanged ==
    /\ PageShown
    /\ \E form \in TrackerForms : session' = ClearFormCheck(FillForm(session, form))
    /\ pc' = "tracker_page"
    /\ UNCHANGED db
    /\ UNCHANGED TrackerFrame

\* 'Add/Update Opportunity in Database' is pressed, lines 1528-1575: the
\* title or the url is missing or a number is not accepted; a warning.
RunAddInvalid ==
    /\ PageShown
    /\ ~input_valid(ClearFormCheck(session))
    /\ session' = ClearFormCheck(session)
    /\ pc' = "tracker_warning"
    /\ UNCHANGED db
    /\ UNCHANGED TrackerFrame

\* Lines 1598-1604: add_opportunity returns the id; clear_form is set and
\* st.rerun() ends the run.
RunAddInserted ==
    /\ PageShown
    /\ db.call.adds < MaxAdds
    /\ \E state \in {ClearFormCheck(session)} :
          /\ input_valid(state)
          /\ ~IntegrityError(db.opportunities, opportunity_data(state))
          /\ db' = [db EXCEPT
                      !.opportunities = Append(@, InsertedRow(opportunity_data(state))),
                      !.sqlite_sequence = @ + 1,
                      !.call = [fn |-> "add_opportunity", data |-> opportunity_data(state),
                                returned |-> "id", last_id |-> db.sqlite_sequence + 1,
                                adds |-> @.adds + 1]]
          /\ session' = Put(state, "clear_form", TRUE)
    /\ pc' = "tracker_rerun"
    /\ UNCHANGED TrackerFrame

\* Lines 1598 and 1605: add_opportunity returns None, because the url is in
\* the table or because the database failed; an error is shown.
RunAddFailed ==
    /\ PageShown
    /\ db.call.adds < MaxAdds
    /\ \E state \in {ClearFormCheck(session)} :
          /\ input_valid(state)
          /\ db' = [db EXCEPT
                      !.call = [fn |-> "add_opportunity", data |-> opportunity_data(state),
                                returned |-> "None", last_id |-> 0, adds |-> @.adds + 1]]
          /\ session' = state
    /\ pc' = "tracker_error"
    /\ UNCHANGED TrackerFrame

\* Lines 1613-1618: the delete button with an id in the table; st.rerun().
RunDeleted ==
    /\ PageShown
    /\ \E id_to_delete \in 1..MaxAdds :
          /\ \E k \in DOMAIN db.opportunities : db.opportunities[k].id = id_to_delete
          /\ db' = [db EXCEPT
                      !.opportunities = SelectSeq(@, LAMBDA row : row.id # id_to_delete),
                      !.call = [@ EXCEPT !.fn = "delete_opportunity_by_id", !.data = <<>>,
                                         !.returned = "True", !.last_id = id_to_delete]]
    /\ session' = ClearFormCheck(session)
    /\ pc' = "tracker_rerun"
    /\ UNCHANGED TrackerFrame

\* Lines 1613-1619: the delete button with an id that is not in the table.
RunDeleteFailed ==
    /\ PageShown
    /\ \E id_to_delete \in 1..MaxAdds :
          /\ \A k \in DOMAIN db.opportunities : db.opportunities[k].id # id_to_delete
          /\ db' = [db EXCEPT
                      !.call = [@ EXCEPT !.fn = "delete_opportunity_by_id", !.data = <<>>,
                                         !.returned = "False", !.last_id = id_to_delete]]
    /\ session' = ClearFormCheck(session)
    /\ pc' = "tracker_error"
    /\ UNCHANGED TrackerFrame

\* The run st.rerun() asked for: no widget has changed, no button is pressed.
RunAgain ==
    /\ pc = "tracker_rerun"
    /\ session' = ClearFormCheck(session)
    /\ pc' = "tracker_page"
    /\ UNCHANGED db
    /\ UNCHANGED TrackerFrame

TrackerNext ==
    \/ RunFormChanged
    \/ RunAddInvalid
    \/ RunAddInserted
    \/ RunAddFailed
    \/ RunDeleted
    \/ RunDeleteFailed
    \/ RunAgain

SpecTracker == TrackerInit /\ [][TrackerNext]_vars

\* Lines 1491-1516: the keys of the widgets of the form.
OppFormKeys ==
    {"opp_form_product_title", "opp_form_product_url", "opp_form_shop_name",
     "opp_form_shop_url", "opp_form_price_str", "opp_form_processing_time",
     "opp_form_shipping_cost_str", "opp_form_est_revenue_str", "opp_form_est_sales_str",
     "opp_form_last_30_days_sales_str", "opp_form_last_30_days_revenue_str",
     "opp_form_listing_age", "opp_form_shop_age_overall", "opp_form_category",
     "opp_form_niche_tags", "opp_form_total_sales_str", "opp_form_views_str",
     "opp_form_favorites_str", "opp_form_conversion_rate", "opp_form_listing_type",
     "opp_form_aliexpress_urls", "opp_form_notes"}

\* The form is empty.
FormEmpty(state) ==
    /\ \A k \in OppFormKeys \cup {"pasted_html", "pasted_everbee_text"} : state[k] = <<>>
    /\ state["is_digital"] = FALSE
    /\ state["tags_list"] = <<>>
    /\ state["etsy_price_float"] = None

\* clear_form is set only while the run that follows a stored add is due.
FlagOnlyBeforeRerun == clear_form(session) => pc = "tracker_rerun"

\* clear_form becomes True only in a run whose add_opportunity stored a row;
\* the run that starts with clear_form set empties the form and resets the
\* flag; a run that ends with a warning or an error leaves the form and the
\* flag as they were.
FormClearingStep ==
    /\ (clear_form(session') /\ ~clear_form(session)) =>
          /\ db'.call.fn = "add_opportunity"
          /\ db'.call.returned = "id"
          /\ db'.call.adds = db.call.adds + 1
          /\ db'.opportunities = Append(db.opportunities, InsertedRow(db'.call.data))
    /\ clear_form(session) => FormEmpty(session') /\ ~clear_form(session')
    /\ pc' \in {"tracker_warning", "tracker_error"} =>
          /\ session' = session
          /\ ~clear_form(session')
          /\ db'.opportunities = db.opportunities

\* C30: clear_form is set to True only by an 'Add/Update Opportunity' run
\* whose insert succeeded; at the start of the next run every opp_form field,
\* pasted_html and pasted_everbee_text are emptied, is_digital is False,
\* tags_list empty, etsy_price_float None and clear_form False again; an add
\* that fails (invalid input, a product url in the table) leaves clear_form
\* False and the form as it was.
C30_FormClearing == []FlagOnlyBeforeRerun /\ [][FormClearingStep]_vars

\* An add of a filled form was refused because its cleaned url is in the
\* table: an earlier add stored it and the form was cleared and filled again.
C30_Witness ==
    /\ pc = "tracker_error"
    /\ db.call.fn = "add_opportunity"
    /\ db.call.returned = "None"
    /\ UrlTaken(db.opportunities, db.call.data.product_url)
    /\ session["opp_form_product_url"] # db.call.data.product_url
    /\ session["tags_list"] # <<>>
    /\ ~clear_form(session)

\* The run after a stored add has emptied a form that held pasted text, tags
\* and a price.
FormCleared ==
    /\ pc = "tracker_page"
    /\ db.call.returned = "id"
    /\ FormEmpty(session)
    /\ "clear_form" \in DOMAIN session

====
